---- MODULE Spec2Model ----
(***************************************************************************)
(* Credential lifecycle and resilient Graph API invocation of AutoFBtool.  *)
(*                                                                         *)
(* The script is single-threaded: one entry point runs at a time.  `pc` is *)
(* the position of the running entry point, `rpc` the position inside      *)
(* refreshToken() when it is on the stack.  Two copies of the token        *)
(* manager exist in the repository (TokenManager.js and the /debug_token   *)
(* version); `build` says which one a behaviour runs with.                 *)
(*                                                                         *)
(* Time: one model time unit is one hour.  Quantities the source holds in  *)
(* seconds are held in hours, quantities it holds in milliseconds are held *)
(* in 1/1000 hour, so the factor 1000 between the two is kept.             *)
(***************************************************************************)
EXTENDS Integers, Sequences, FiniteSets, TLC

\* ------------------------------------------------------------------ bounds
\* counters of requests / refreshes saturate here
MaxCount == 3
\* the clock advances up to here
MaxNow == 2
\* length of the page list /me/accounts answers with
MaxPages == 2

\* ------------------------------------------------------- program constants
MS == 1000
\* 24 * 60 * 60 seconds, in hours
DAY == 24
\* 60 * 24 * 60 * 60 seconds, in hours
SIXTY_DAYS == 1440
\* the value '' of FB_TOKEN_EXPIRES_AT (no number is stored)
EmptyExpiry == 0

\* ------------------------------------------------------------ value domains
Builds == {"debug_token", "TokenManager"}
UserTokens == {"u1", "u2"}
PageIds == {"p1", "p2"}
AppIds == {"app"}
AppSecrets == {"sec"}
\* one wrapped operation of each kind: fetchCommentsSince and fetchRecentPosts
\* handle a response as fetchComments does, createPagePost and getPageInfo
\* as postReply does
WrappedOps == {"fetchComments", "postReply"}
Args == {"x"}
\* expires_at / data_access_expires_at values the upstream may report (hours)
ExpirySignals == {0, 1, 26}
\* expires_in values the upstream may report (hours)
ExpiresInValues == {0, 25}
\* is_valid of a /debug_token answer: a boolean, or missing
IsValidValues == {"true", "false", "undefined"}
\* the permissions /debug_token reports for a token
Scopes == {"pages_manage_posts"}

Min(a, b) == IF a < b THEN a ELSE b
Max(a, b) == IF a > b THEN a ELSE b
Bump(n) == Min(n + 1, MaxCount)

\* The page token the upstream issues for page p to user token u, and the
\* name of page p: one candidate {id, name, access_token} of /me/accounts.
PageTok(u, p) ==
  CASE u = "u1" /\ p = "p1" -> "t11"
    [] u = "u1" /\ p = "p2" -> "t12"
    [] u = "u2" /\ p = "p1" -> "t21"
    [] u = "u2" /\ p = "p2" -> "t22"
    [] OTHER -> ""
PageName(p) == CASE p = "p1" -> "n1" [] p = "p2" -> "n2" [] OTHER -> ""
Candidate(u, p) == [id |-> p, name |-> PageName(p), access_token |-> PageTok(u, p)]
PageTokens == {PageTok(u, p) : u \in UserTokens, p \in PageIds}

\* sequences over S of length 0..n
RECURSIVE SeqsUpTo(_, _)
SeqsUpTo(S, n) ==
  IF n = 0 THEN {<<>>}
  ELSE LET shorter == SeqsUpTo(S, n - 1)
       IN shorter \cup {Append(s, x) : s \in {t \in shorter : Len(t) = n - 1}, x \in S}

\* ------------------------------------------------------- upstream responses
\* a response to a wrapped Graph call: status, whether the body contains
\* "Session has expired", whether the parsed body has an id
GraphResponses ==
  [code : {200}, expired : {FALSE}, hasId : BOOLEAN]
    \cup [code : {400, 401, 500}, expired : BOOLEAN, hasId : {FALSE}]
\* The fields of a response that the code does not read (the body of an
\* error, the fields of a missing data object) are held at their defaults.
\* /oauth/access_token (fb_exchange_token)
ExchangeResponses ==
  [code : {400, 401, 500}, access_token : {""}, expires_in : {0}]
    \cup [code : {200}, access_token : UserTokens \cup {""}, expires_in : ExpiresInValues]
\* /me/accounts: status, whether data is an array, the page ids in it
PagesResponses ==
  [code : {500}, isArray : {FALSE}, ids : {<<>>}]
    \cup [code : {200}, isArray : {FALSE}, ids : {<<>>}]
    \cup [code : {200}, isArray : {TRUE}, ids : SeqsUpTo(PageIds, MaxPages)]
\* /debug_token
DebugResponses ==
  [code : {400, 401, 500}, hasData : {FALSE}, is_valid : {"undefined"}, expires_at : {0},
   data_access_expires_at : {0}, app_id : {""}, scopes : {{}}]
    \cup [code : {200}, hasData : {FALSE}, is_valid : {"undefined"}, expires_at : {0},
          data_access_expires_at : {0}, app_id : {""}, scopes : {{}}]
    \cup [code : {200}, hasData : {TRUE}, is_valid : IsValidValues, expires_at : ExpirySignals,
          data_access_expires_at : ExpirySignals, app_id : AppIds \cup {""},
          scopes : {Scopes}]
\* /oauth/access_token_info (legacy)
LegacyResponses ==
  [code : {400, 401, 500}, expires_in : {0}, app_id : {""}, app_secret : {""}]
    \cup [code : {200}, expires_in : ExpiresInValues, app_id : AppIds \cup {""},
          app_secret : AppSecrets \cup {""}]
\* the legacy endpoint is not called
NoLegacyCall == [code |-> 0, expires_in |-> 0, app_id |-> "", app_secret |-> ""]

Is2xx(code) == ~(code < 200 \/ code >= 300)

VARIABLES
  build,      \* which copy of the token manager is loaded
  now,        \* the clock, in hours
  store,      \* script properties: the credential chain
  pc,         \* position of the running entry point
  fn,         \* the wrapped operation being invoked
  args,       \* its arguments other than the token
  token,      \* the token argument of the innermost activation
  depth,      \* activations of fn on the stack below the innermost one
  calls,      \* upstream requests executed by this invocation (saturating)
  refreshes,  \* refreshToken() calls made by this invocation (saturating)
  lastReq,    \* the latest upstream request: fn, args, token
  lastResp,   \* the response to it
  outcome,    \* what the invocation returned or threw
  rpc,        \* position inside refreshToken()
  rloc,       \* locals of refreshToken()
  rResult,    \* its return value
  rFail,      \* the steps of this refresh that failed
  rHttp,      \* upstream calls made by this refresh (saturating)
  rWrites,    \* setProperties calls made by this refresh (saturating)
  store0,     \* the store when this refresh (or setup) began
  spc,        \* position inside setupTokensFromShortLived()
  sloc,       \* locals of the running setup
  sres,       \* the result of the latest setup: which one, success
  check,      \* the latest validity check or token inspection and its result
  listed,     \* the page ids /me/accounts listed in the step just taken
  sw,         \* locals of the running (or latest) sweep
  sheet,      \* the processed, log and scheduled-post sheets, and what was sent
  triggers,   \* the project's installed triggers, and the latest call on them
  targets     \* the settings and listings of a getTargetPostIds call, its result

vars == <<build, now, store, pc, fn, args, token, depth, calls, refreshes,
          lastReq, lastResp, outcome, rpc, rloc, rResult, rFail, rHttp,
          rWrites, store0, spc, sloc, sres, check, listed, sw, sheet, triggers,
          targets>>

callVars == <<fn, args, token, depth, calls, refreshes, lastReq, lastResp, outcome>>
refreshVars == <<rloc, rResult, rFail, rHttp, rWrites, store0>>
setupVars == <<spc, sloc, sres>>
sweepVars == <<sw, sheet, triggers, targets>>

EmptyStore == [userToken |-> "", pageToken |-> "", pageId |-> "", pageName |-> "",
               expiresAt |-> EmptyExpiry, appId |-> "", appSecret |-> ""]
NoReq == [fn |-> "", args |-> "", token |-> ""]
NoResp == [code |-> 0, expired |-> FALSE, hasId |-> FALSE]
NoOutcome == [kind |-> "none", label |-> "", cause |-> "", code |-> 0, expired |-> FALSE]
\* exchangeFailed: the exchange call of this setup got a status outside
\* 200..299; tokenInfo: what the manual setup of the /debug_token version
\* reads of the introspection result
NoSetupLocals == [token |-> "", appId |-> "", appSecret |-> "", appFound |-> FALSE,
                  accessToken |-> "", expiresIn |-> 0, cause |-> "",
                  exchangeFailed |-> FALSE,
                  tokenInfo |-> [expiresAt |-> 0, expiresIn |-> 0,
                                 dataAccessExpiresAt |-> 0]]
NoSetup == [op |-> "", success |-> FALSE]
\* info: what refreshToken reads of the introspection result (called is
\* FALSE until getTokenInfoFromToken has been called, ok is FALSE when it threw)
NoInfoRead == [called |-> FALSE, ok |-> FALSE, dataAccessExpiresAt |-> 0, expiresAt |-> 0]
\* no token information (ok = FALSE: the call threw)
NoInfo == [ok |-> FALSE, reason |-> "", appId |-> "", isValid |-> "undefined", expiresAt |-> 0,
           dataAccessExpiresAt |-> 0, hasDataAccess |-> FALSE, expiresIn |-> 0,
           isLongLived |-> FALSE, legacy |-> FALSE, scopes |-> {}]
\* info: the result of getTokenInfoFromToken, primary: that of the call of
\* /debug_token alone, code and hasData: what /debug_token answered, at: the
\* clock when the check ran, legacyCode: what the legacy endpoint answered
\* (0: not called), authorizing: the access_token of the /debug_token request;
\* byApi: what isTokenValid(userToken) of the /debug_token version answers
\* about the stored user token when checkAndRefreshToken runs (FALSE without
\* a stored token), byStorage: what isTokenValid() answers then
NoCheck == [op |-> "", token |-> "", at |-> 0, result |-> FALSE, http |-> 0,
            code |-> 0, hasData |-> FALSE, primary |-> NoInfo, info |-> NoInfo,
            legacyCode |-> 0, authorizing |-> <<>>,
            byApi |-> FALSE, byStorage |-> FALSE]
\* list: the handler of each installed trigger, in the order of
\* getProjectTriggers(); op: the latest function that worked on the list,
\* raised: it threw
NoTriggers == [list |-> <<>>, op |-> "", raised |-> FALSE]
\* postIds and autoDiscovery: the settings '投稿ID' (split at the commas) and
\* '自動検出', posts and reels: what fetchRecentPosts and fetchRecentReels
\* list, pageInfoOk: getPageInfo does not throw; pc: "input" before the call,
\* then "returned" or "thrown"; result: the ids returned; called: the
\* functions called upstream, in order
NoTargets == [pc |-> "off", postIds |-> <<>>, autoDiscovery |-> "", posts |-> <<>>,
              reels |-> <<>>, pageInfoOk |-> FALSE, result |-> <<>>,
              called |-> <<>>]
\* upstream posts and comments
Posts == {"a", "b"}
Comments == {"c1", "c2"}
\* the status column of the scheduled-post sheet: '予約中', '送信済み', '失敗'
Statuses == {"scheduled", "sent", "failed"}
\* bound: target post ids of one sweep
MaxPosts == 2
\* bound: the fetch limit (the setting '取得件数')
MaxComments == 2
\* bound: rows of the scheduled-post sheet
MaxRows == 2
\* bound: the tallies of replies and posts stop counting here
MaxTally == 2
Tally(n) == Min(n + 1, MaxTally)
\* op: the entry point, pc: its position, token: its token variable,
\* postIds and comments: what the loops have still to visit, seen: the set of
\* ids loaded at the start, last: how the comment just visited was handled,
\* attempts: postReply calls of this sweep per comment, rows0: the status
\* column when the sweep began, rows: the status column as read before the
\* loop, todo: rows still to visit, refreshed: refreshToken() returned true,
\* reread: the stored page token when it did, postTokens: the tokens the
\* posts of this sweep were made with, cell: the other columns of the row
\* just visited, posted and failed: the counters of processScheduledPosts,
\* attempted: its createPagePost calls
\* sinceMs, total, replied, failed and skipped: the locals of
\* replyUnrepliedCommentsLast12h, item: the id and created_time (in
\* milliseconds, 0: none) of the comment just visited, fetched: the comments
\* fetchCommentsSince has returned to this sweep
NoItem == [id |-> "", created |-> 0]
NoCell == [enabled |-> "", body |-> "", date |-> "", hour |-> "", minute |-> ""]
NoSweep == [op |-> "", pc |-> "off", error |-> "", token |-> "", postIds |-> <<>>,
            comments |-> <<>>, seen |-> {}, last |-> "",
            attempts |-> [c \in Comments |-> 0], rows0 |-> <<>>, rows |-> <<>>,
            todo |-> <<>>, refreshed |-> FALSE, reread |-> "", postTokens |-> {},
            cell |-> NoCell, posted |-> 0, failed |-> 0, attempted |-> 0,
            sinceMs |-> 0, item |-> NoItem, fetched |-> 0, total |-> 0,
            replied |-> 0, skipped |-> 0]
\* processed: the ids in the processed sheet, logs: the (comment id, status)
\* pairs of the log sheet, replies: successful postReply calls per comment,
\* rows: the status column of the scheduled-post sheet, tried and posts: the
\* createPagePost calls made, and the posts created, for each row
NoSheet == [processed |-> {}, logs |-> {}, replies |-> [c \in Comments |-> 0],
            rows |-> <<>>, tried |-> <<>>, posts |-> <<>>]
NoLocals == [userToken |-> "", appId |-> "", appSecret |-> "", accessToken |-> "",
             expiresIn |-> 0, page |-> Candidate("", ""), info |-> NoInfoRead,
             expiresAtMs |-> 0]

Init ==
  /\ build \in Builds
  /\ now = 1
  /\ store = EmptyStore
  /\ pc = "idle"
  /\ fn = "" /\ args = "" /\ token = ""
  /\ depth = 0 /\ calls = 0 /\ refreshes = 0
  /\ lastReq = NoReq /\ lastResp = NoResp /\ outcome = NoOutcome
  /\ rpc = "off" /\ rloc = NoLocals /\ rResult = FALSE
  /\ rFail = {} /\ rHttp = 0 /\ rWrites = 0
  /\ store0 = EmptyStore
  /\ spc = "off" /\ sloc = NoSetupLocals /\ sres = NoSetup
  /\ check = NoCheck
  /\ listed = <<>>
  /\ sw = NoSweep /\ sheet = NoSheet
  /\ triggers = NoTriggers /\ targets = NoTargets

Idle == pc \in {"idle", "done"} /\ rpc = "off" /\ spc = "off"

\* An entry point starts with nothing left over from the one before it, and
\* the locals of a function are gone when it has returned to its caller.
ResetCall ==
  /\ fn' = "" /\ args' = "" /\ token' = ""
  /\ depth' = 0 /\ calls' = 0 /\ refreshes' = 0
  /\ lastReq' = NoReq /\ lastResp' = NoResp /\ outcome' = NoOutcome
ResetRefresh ==
  /\ rloc' = NoLocals /\ rResult' = FALSE /\ rFail' = {}
  /\ rHttp' = 0 /\ rWrites' = 0 /\ store0' = store
ResetSetup ==
  /\ spc' = "off" /\ sloc' = NoSetupLocals /\ sres' = NoSetup

\* time passes
Tick ==
  /\ now < MaxNow
  /\ now' = now + 1
  /\ UNCHANGED <<build, store, pc, rpc>>
  /\ UNCHANGED callVars /\ UNCHANGED refreshVars /\ UNCHANGED setupVars
  /\ UNCHANGED check /\ UNCHANGED sweepVars
  /\ listed' = <<>>


\* ------------------------------------------------------ token introspection

\* (variant) status 401 is reported like any other status
DebugTokenError_NoUnauthorized(code) ==
  CASE code = 400 -> "invalid_token"
    [] OTHER -> "upstream_error"

\* the error getTokenInfoFromDebugToken throws for a status outside 200..299
DebugTokenError(code) ==
  CASE code = 400 -> "invalid_token"
    [] code = 401 -> "unauthorized"
    [] OTHER -> "upstream_error"

\* the remaining lifetime reported for expires_at at time t, never negative
ExpiresInAt(expires_at, t) ==
  IF expires_at > 0 THEN Max(0, expires_at - t) ELSE 0

\* (variant) a token with exactly one day left counts as long-lived
IsLongLivedAt_Inclusive(expires_at, t) ==
  expires_at = 0 \/ (expires_at > 0 /\ (expires_at - t) >= DAY)

\* whether a token with this expires_at is long-lived at time t
IsLongLivedAt(expires_at, t) ==
  expires_at = 0 \/ (expires_at > 0 /\ (expires_at - t) > DAY)

\* getTokenInfoFromDebugToken: the result for /debug_token response d at time t
\* (seconds since the epoch, here hours); ok = FALSE is a thrown error
getTokenInfoFromDebugToken(d, t) ==
  IF ~Is2xx(d.code)
  THEN [NoInfo EXCEPT !.reason = DebugTokenError(d.code)]
  ELSE IF ~d.hasData
  THEN [NoInfo EXCEPT !.reason = "no_data"]
  ELSE [ok |-> TRUE, reason |-> "", appId |-> d.app_id, isValid |-> d.is_valid,
        expiresAt |-> d.expires_at,
        dataAccessExpiresAt |-> d.data_access_expires_at, hasDataAccess |-> TRUE,
        expiresIn |-> ExpiresInAt(d.expires_at, t),
        isLongLived |-> IsLongLivedAt(d.expires_at, t),
        legacy |-> FALSE, scopes |-> d.scopes]

\* createAppToken: the app token '{app-id}|{app-secret}'; a token is the
\* sequence of its parts
createAppToken(appId, appSecret) == <<appId, "|", appSecret>>

debugAccessToken_IdOnly(tok, appId, appSecret) ==
  IF appId # "" THEN createAppToken(appId, appSecret) ELSE <<tok>>

\* the access_token getTokenInfoFromToken sends with the /debug_token request
\* for tok
debugAccessToken(tok, appId, appSecret) ==
  IF appId # "" /\ appSecret # "" THEN createAppToken(appId, appSecret) ELSE <<tok>>

getTokenInfoFromToken_LegacyError(d, l, t) ==
  LET primary == getTokenInfoFromDebugToken(d, t)
  IN IF primary.ok THEN primary
     ELSE IF Is2xx(l.code)
     THEN [ok |-> TRUE, reason |-> "", appId |-> l.app_id, isValid |-> "true",
           expiresAt |-> 0, dataAccessExpiresAt |-> 0, hasDataAccess |-> FALSE,
           expiresIn |-> l.expires_in,
           isLongLived |-> l.expires_in > DAY, legacy |-> TRUE, scopes |-> {}]
     ELSE [NoInfo EXCEPT !.reason = "legacy_failed"]

\* getTokenInfoFromToken of the /debug_token version: the primary
\* introspection, then the legacy endpoint, then the primary error
getTokenInfoFromToken(d, l, t) ==
  LET primary == getTokenInfoFromDebugToken(d, t)
  IN IF primary.ok THEN primary
     ELSE IF Is2xx(l.code)
     THEN [ok |-> TRUE, reason |-> "", appId |-> l.app_id, isValid |-> "true",
           expiresAt |-> 0, dataAccessExpiresAt |-> 0, hasDataAccess |-> FALSE,
           expiresIn |-> l.expires_in,
           isLongLived |-> l.expires_in > DAY, legacy |-> TRUE, scopes |-> {}]
     ELSE primary

\* the responses of the legacy endpoint that can follow /debug_token response d
LegacyAfter(d, t) ==
  IF getTokenInfoFromDebugToken(d, t).ok THEN {NoLegacyCall} ELSE LegacyResponses

\* upstream calls getTokenInfoFromToken makes for these responses
IntrospectCalls(d, t) == IF getTokenInfoFromDebugToken(d, t).ok THEN 1 ELSE 2

\* what refreshToken reads of getTokenInfoFromToken's result at time t, each
\* with the number of upstream calls it took
IntrospectOutcomes(t) ==
  UNION {{LET info == getTokenInfoFromToken(d, l, t)
          IN [info |-> [ok |-> info.ok,
                        dataAccessExpiresAt |-> info.dataAccessExpiresAt,
                        expiresAt |-> info.expiresAt],
              http |-> IntrospectCalls(d, t)] :
            l \in LegacyAfter(d, t)} : d \in DebugResponses}
\* the same at each time of the clock
IntrospectOutcomesAt == [t \in 1..MaxNow |-> IntrospectOutcomes(t)]

\* ------------------------------------------------------------ token exchange
\* exchangeToLongLivedTokenWithCredentials: ok = FALSE is a thrown error
\* (status: the error is the one thrown for a status outside 200..299)
exchangeToLongLivedTokenWithCredentials(r) ==
  IF ~Is2xx(r.code)
  THEN [ok |-> FALSE, status |-> TRUE, accessToken |-> "", expiresIn |-> 0]
  ELSE IF r.access_token = ""
  THEN [ok |-> FALSE, status |-> FALSE, accessToken |-> "", expiresIn |-> 0]
  ELSE [ok |-> TRUE, status |-> FALSE, accessToken |-> r.access_token,
        expiresIn |-> r.expires_in]

\* getPageTokens: the candidates /me/accounts lists for userToken
getPageTokens(userToken, r) ==
  IF ~Is2xx(r.code) \/ ~r.isArray
  THEN [ok |-> FALSE, pages |-> <<>>]
  ELSE [ok |-> TRUE, pages |-> [i \in 1..Len(r.ids) |-> Candidate(userToken, r.ids[i])]]

selectedPage_Last(pages) == pages[Len(pages)]

\* pages[0]: the candidate the chain is built with
selectedPage(pages) == pages[1]

\* ------------------------------------------------------------- isTokenValid
\* (variant) the buffer is inclusive
isValidByStorage_Inclusive(expiresAt, t) ==
  IF expiresAt = EmptyExpiry THEN FALSE
  ELSE (expiresAt - t * MS) >= DAY * MS

\* isTokenValid() without a token: the stored expiry (milliseconds) against
\* the clock t, with a buffer of 24 hours
isValidByStorage(expiresAt, t) ==
  IF expiresAt = EmptyExpiry THEN FALSE
  ELSE (expiresAt - t * MS) > DAY * MS

\* isTokenValid(token) of the /debug_token version, for the result info of
\* getTokenInfoFromToken(token) at clock t (seconds, here hours)
isValidByApi(info, t) ==
  IF ~info.ok THEN FALSE
  ELSE IF info.isValid # "undefined" THEN info.isValid = "true"
  ELSE IF info.expiresAt > 0 THEN (info.expiresAt - t) > DAY
  ELSE TRUE

\* isTokenValid(tok); tok = "" is the call without a token.  The function of
\* TokenManager.js has no parameter and looks at the stored expiry only.
isTokenValid(tok) ==
  /\ Idle
  /\ IF tok # "" /\ build = "debug_token"
     THEN \E d \in DebugResponses : \E l \in LegacyAfter(d, now) :
            LET tokenInfo == getTokenInfoFromToken(d, l, now)
            IN check' = [op |-> "isTokenValid", token |-> tok, at |-> now,
                         result |-> isValidByApi(tokenInfo, now),
                         http |-> IntrospectCalls(d, now),
                         code |-> d.code, hasData |-> d.hasData,
                         primary |-> getTokenInfoFromDebugToken(d, now),
                         info |-> tokenInfo, legacyCode |-> l.code,
                         authorizing |-> debugAccessToken(tok, "", ""),
                         byApi |-> FALSE, byStorage |-> FALSE]
     ELSE check' = [NoCheck EXCEPT !.op = "isTokenValid", !.token = tok, !.at = now,
                                   !.result = isValidByStorage(store.expiresAt, now)]
  /\ UNCHANGED <<build, now, store, pc, rpc>>
  /\ UNCHANGED callVars /\ UNCHANGED refreshVars /\ UNCHANGED setupVars
  /\ UNCHANGED sweepVars
  /\ listed' = <<>>

\* getDetailedTokenInfo(tok): the token information shown to the operator
\* (raw), for tok or else the stored user token
getDetailedTokenInfo(tok) ==
  /\ Idle /\ build = "debug_token"
  /\ LET targetToken == IF tok # "" THEN tok ELSE store.userToken
     IN IF targetToken = ""
        THEN check' = [NoCheck EXCEPT !.op = "getDetailedTokenInfo", !.at = now]
        ELSE \E d \in DebugResponses : \E l \in LegacyAfter(d, now) :
               LET tokenInfo == getTokenInfoFromToken(d, l, now)
               IN check' = [op |-> "getDetailedTokenInfo", token |-> targetToken,
                            at |-> now, result |-> tokenInfo.ok,
                            http |-> IntrospectCalls(d, now),
                            code |-> d.code, hasData |-> d.hasData,
                            primary |-> getTokenInfoFromDebugToken(d, now),
                            info |-> tokenInfo, legacyCode |-> l.code,
                            authorizing |->
                              debugAccessToken(targetToken, store.appId,
                                               store.appSecret),
                            byApi |-> FALSE, byStorage |-> FALSE]
  /\ UNCHANGED <<build, now, store, pc, rpc>>
  /\ UNCHANGED callVars /\ UNCHANGED refreshVars /\ UNCHANGED setupVars
  /\ UNCHANGED sweepVars
  /\ listed' = <<>>

\* ------------------------------------------------------------- refreshToken
\* the caller's step into refreshToken()
BeginRefresh ==
  /\ rpc' = "start"
  /\ rloc' = NoLocals
  /\ rResult' = FALSE
  /\ rFail' = {}
  /\ rHttp' = 0
  /\ rWrites' = 0
  /\ store0' = store

\* (variant) the user token is not checked before the lookup
RefreshCanProceed_NoTokenCheck(b, userToken, appId, appSecret) ==
  IF b = "TokenManager"
  THEN ~(appId = "" \/ appSecret = "")
  ELSE TRUE

\* whether refreshToken can go on with the properties it read
RefreshCanProceed(b, userToken, appId, appSecret) ==
  IF b = "TokenManager"
  THEN ~(userToken = "" \/ appId = "" \/ appSecret = "")
  ELSE ~(userToken = "")

\* (variant) only a missing app secret selects the path without exchange
Degraded_SecretOnly(appId, appSecret) == appSecret = ""

\* whether refreshToken takes the path without exchange
Degraded(appId, appSecret) == appId = "" \/ appSecret = ""

\* (variant) the exchange is tried whatever is stored
RefreshRead_AlwaysExchange ==
  /\ rpc = "start"
  /\ rloc' = [rloc EXCEPT !.userToken = store.userToken, !.appId = store.appId,
                          !.appSecret = store.appSecret,
                          !.accessToken = store.userToken]
  /\ IF ~RefreshCanProceed(build, store.userToken, store.appId, store.appSecret)
     THEN rpc' = "catch" /\ rFail' = rFail \cup {"config"}
     ELSE /\ rpc' = "exchange"
          /\ rFail' = rFail
  /\ UNCHANGED <<build, now, store, pc, rResult, rHttp, rWrites, store0>>
  /\ UNCHANGED callVars /\ UNCHANGED setupVars
  /\ UNCHANGED check /\ UNCHANGED sweepVars
  /\ listed' = <<>>

RefreshRead ==
  /\ rpc = "start"
  /\ rloc' = [rloc EXCEPT !.userToken = store.userToken, !.appId = store.appId,
                          !.appSecret = store.appSecret,
                          !.accessToken = store.userToken]
  /\ IF ~RefreshCanProceed(build, store.userToken, store.appId, store.appSecret)
     THEN rpc' = "catch" /\ rFail' = rFail \cup {"config"}
     ELSE /\ rpc' = IF Degraded(store.appId, store.appSecret) THEN "pages" ELSE "exchange"
          /\ rFail' = rFail
  /\ UNCHANGED <<build, now, store, pc, rResult, rHttp, rWrites, store0>>
  /\ UNCHANGED callVars /\ UNCHANGED setupVars
  /\ UNCHANGED check /\ UNCHANGED sweepVars
  /\ listed' = <<>>

\* (variant) the exchanged user token is stored as soon as it is obtained
RefreshExchange_WritesEarly ==
  /\ rpc = "exchange"
  /\ \E r \in ExchangeResponses :
       LET tokenInfo == exchangeToLongLivedTokenWithCredentials(r)
       IN IF tokenInfo.ok
          THEN /\ rloc' = [rloc EXCEPT !.accessToken = tokenInfo.accessToken,
                                       !.expiresIn = tokenInfo.expiresIn]
               /\ store' = [store EXCEPT !.userToken = tokenInfo.accessToken]
               /\ rpc' = "pages"
               /\ rFail' = rFail
          ELSE /\ rpc' = "catch"
               /\ rFail' = rFail \cup {"exchange"}
                              \cup (IF tokenInfo.status THEN {"exchange_status"} ELSE {})
               /\ rloc' = rloc
               /\ store' = store
  /\ rHttp' = Bump(rHttp)
  /\ UNCHANGED <<build, now, pc, rResult, rWrites, store0>>
  /\ UNCHANGED callVars /\ UNCHANGED setupVars
  /\ UNCHANGED check /\ UNCHANGED sweepVars
  /\ listed' = <<>>

RefreshExchange ==
  /\ rpc = "exchange"
  /\ \E r \in ExchangeResponses :
       LET tokenInfo == exchangeToLongLivedTokenWithCredentials(r)
       IN IF tokenInfo.ok
          THEN /\ rloc' = [rloc EXCEPT !.accessToken = tokenInfo.accessToken,
                                       !.expiresIn = tokenInfo.expiresIn]
               /\ rpc' = "pages"
               /\ rFail' = rFail
          ELSE /\ rpc' = "catch"
               /\ rFail' = rFail \cup {"exchange"}
                              \cup (IF tokenInfo.status THEN {"exchange_status"} ELSE {})
               /\ rloc' = rloc
  /\ rHttp' = Bump(rHttp)
  /\ UNCHANGED <<build, now, store, pc, rResult, rWrites, store0>>
  /\ UNCHANGED callVars /\ UNCHANGED setupVars
  /\ UNCHANGED check /\ UNCHANGED sweepVars
  /\ listed' = <<>>

\* (variant) an empty page list is not rejected; the write goes ahead with
\* the fields of a missing candidate
RefreshPages_NoEmptyCheck ==
  /\ rpc = "pages"
  /\ \E r \in PagesResponses :
       LET res == getPageTokens(rloc.accessToken, r)
       IN IF ~res.ok
          THEN /\ rpc' = "catch" /\ rFail' = rFail \cup {"pages"} /\ rloc' = rloc
               /\ listed' = <<>>
          ELSE /\ rloc' = [rloc EXCEPT !.page = IF Len(res.pages) = 0
                                                THEN Candidate("", "")
                                                ELSE selectedPage(res.pages)]
               /\ listed' = r.ids
               /\ rpc' = IF build = "TokenManager" THEN "persist" ELSE "introspect"
               /\ rFail' = IF Len(res.pages) = 0 THEN rFail \cup {"empty"} ELSE rFail
  /\ rHttp' = Bump(rHttp)
  /\ UNCHANGED <<build, now, store, pc, rResult, rWrites, store0>>
  /\ UNCHANGED callVars /\ UNCHANGED setupVars
  /\ UNCHANGED check /\ UNCHANGED sweepVars

RefreshPages ==
  /\ rpc = "pages"
  /\ \E r \in PagesResponses :
       LET res == getPageTokens(rloc.accessToken, r)
       IN IF ~res.ok
          THEN /\ rpc' = "catch" /\ rFail' = rFail \cup {"pages"} /\ rloc' = rloc
               /\ listed' = <<>>
          ELSE IF Len(res.pages) = 0
          THEN /\ rpc' = "catch" /\ rFail' = rFail \cup {"empty"} /\ rloc' = rloc
               /\ listed' = <<>>
          ELSE /\ rloc' = [rloc EXCEPT !.page = selectedPage(res.pages)]
               /\ listed' = r.ids
               /\ rpc' = IF build = "TokenManager" THEN "persist" ELSE "introspect"
               /\ rFail' = rFail
  /\ rHttp' = Bump(rHttp)
  /\ UNCHANGED <<build, now, store, pc, rResult, rWrites, store0>>
  /\ UNCHANGED callVars /\ UNCHANGED setupVars
  /\ UNCHANGED check /\ UNCHANGED sweepVars

\* (variant) expires_at is looked at before data_access_expires_at
ExpiryFromInfo_ExpiresAtFirst(info) ==
  IF info.ok /\ info.expiresAt > 0 THEN info.expiresAt * MS
  ELSE IF info.ok /\ info.dataAccessExpiresAt > 0 THEN info.dataAccessExpiresAt * MS
  ELSE 0

\* the expiry refreshToken derives from an introspection result
\* (data_access_expires_at first), 0 for null
ExpiryFromInfo(info) ==
  IF info.ok /\ info.dataAccessExpiresAt > 0 THEN info.dataAccessExpiresAt * MS
  ELSE IF info.ok /\ info.expiresAt > 0 THEN info.expiresAt * MS
  ELSE 0

\* (variant) a lifetime reported by the exchange is used whatever the
\* introspection said
ExpiryWithExchange_Overrides(info, expiresIn, t) ==
  IF expiresIn # 0
  THEN t * MS + expiresIn * MS
  ELSE ExpiryFromInfo(info)

\* expiresAtMs of the path with exchange: the exchange's expires_in when the
\* introspection gave nothing
ExpiryWithExchange(info, expiresIn, t) ==
  IF ExpiryFromInfo(info) = 0 /\ expiresIn # 0
  THEN t * MS + expiresIn * MS
  ELSE ExpiryFromInfo(info)

RefreshIntrospect ==
  /\ rpc = "introspect"
  /\ \E o \in IntrospectOutcomesAt[now] :
       LET info == o.info
       IN /\ rloc' = [rloc EXCEPT
                        !.info = [called |-> TRUE, ok |-> info.ok,
                                  dataAccessExpiresAt |-> info.dataAccessExpiresAt,
                                  expiresAt |-> info.expiresAt],
                        !.expiresAtMs =
                          IF Degraded(rloc.appId, rloc.appSecret)
                          THEN ExpiryFromInfo(info)
                          ELSE ExpiryWithExchange(info, rloc.expiresIn, now)]
          /\ rFail' = IF info.ok THEN rFail ELSE rFail \cup {"introspect"}
          /\ rHttp' = Min(rHttp + o.http, MaxCount)
  /\ rpc' = "persist"
  /\ UNCHANGED <<build, now, store, pc, rResult, rWrites, store0>>
  /\ UNCHANGED callVars /\ UNCHANGED setupVars
  /\ UNCHANGED check /\ UNCHANGED sweepVars
  /\ listed' = <<>>

\* (variant) the exchanged user token is left out of the write
RefreshedStore_KeepsUserToken(b, st, loc, t) ==
  [st EXCEPT !.pageToken = loc.page.access_token,
             !.pageId = loc.page.id,
             !.pageName = loc.page.name,
             !.expiresAt = IF b = "TokenManager" THEN t * MS + loc.expiresIn * MS
                           ELSE IF loc.expiresAtMs # 0 THEN loc.expiresAtMs
                           ELSE IF Degraded(loc.appId, loc.appSecret) THEN st.expiresAt
                           ELSE EmptyExpiry]

\* the properties refreshToken writes, in one setProperties call
RefreshedStore(b, st, loc, t) ==
  IF b = "TokenManager"
  THEN [st EXCEPT !.userToken = loc.accessToken,
                  !.pageToken = loc.page.access_token,
                  !.pageId = loc.page.id,
                  !.pageName = loc.page.name,
                  !.expiresAt = t * MS + loc.expiresIn * MS]
  ELSE IF Degraded(loc.appId, loc.appSecret)
  THEN [st EXCEPT !.pageToken = loc.page.access_token,
                  !.pageId = loc.page.id,
                  !.pageName = loc.page.name,
                  !.expiresAt = IF loc.expiresAtMs # 0 THEN loc.expiresAtMs
                                ELSE st.expiresAt]
  ELSE [st EXCEPT !.userToken = loc.accessToken,
                  !.pageToken = loc.page.access_token,
                  !.pageId = loc.page.id,
                  !.pageName = loc.page.name,
                  !.expiresAt = IF loc.expiresAtMs # 0 THEN loc.expiresAtMs
                                ELSE EmptyExpiry]

RefreshPersist ==
  /\ rpc = "persist"
  /\ store' = RefreshedStore(build, store, rloc, now)
  /\ rWrites' = Bump(rWrites)
  /\ IF build = "TokenManager"
     THEN rpc' = "ret" /\ rResult' = TRUE
     ELSE rpc' = "sheet" /\ rResult' = rResult
  /\ UNCHANGED <<build, now, pc, rloc, rFail, rHttp, store0>>
  /\ UNCHANGED callVars /\ UNCHANGED setupVars
  /\ UNCHANGED check /\ UNCHANGED sweepVars
  /\ listed' = <<>>

\* (variant) a failure of the settings-sheet update reaches the outer catch
RefreshSheet_Propagates ==
  /\ rpc = "sheet"
  /\ \E sheetOk \in BOOLEAN :
       IF sheetOk
       THEN rpc' = "ret" /\ rResult' = TRUE /\ rFail' = rFail
       ELSE rpc' = "catch" /\ rResult' = rResult /\ rFail' = rFail \cup {"sheet"}
  /\ UNCHANGED <<build, now, store, pc, rloc, rHttp, rWrites, store0>>
  /\ UNCHANGED callVars /\ UNCHANGED setupVars
  /\ UNCHANGED check /\ UNCHANGED sweepVars
  /\ listed' = <<>>

\* the settings-sheet update after the write; its failure is swallowed
RefreshSheet ==
  /\ rpc = "sheet"
  /\ \E sheetOk \in BOOLEAN :
       rFail' = IF sheetOk THEN rFail ELSE rFail \cup {"sheet"}
  /\ rpc' = "ret"
  /\ rResult' = TRUE
  /\ UNCHANGED <<build, now, store, pc, rloc, rHttp, rWrites, store0>>
  /\ UNCHANGED callVars /\ UNCHANGED setupVars
  /\ UNCHANGED check /\ UNCHANGED sweepVars
  /\ listed' = <<>>

\* the outer catch of refreshToken: log and return false
RefreshCatch ==
  /\ rpc = "catch"
  /\ rpc' = "ret"
  /\ rResult' = FALSE
  /\ UNCHANGED <<build, now, store, pc, rloc, rFail, rHttp, rWrites, store0>>
  /\ UNCHANGED callVars /\ UNCHANGED setupVars
  /\ UNCHANGED check /\ UNCHANGED sweepVars
  /\ listed' = <<>>


\* ------------------------------------------- wrapped Graph API operations
\* the operations that throw on a 2xx body without an id
RequiresId(f) == f \in {"postReply", "createPagePost", "getPageInfo"}

\* (variant) the status 400 is not required
IsSessionExpired_AnyStatus(r) == r.expired

\* the condition under which a wrapped operation refreshes and retries
IsSessionExpired(r) == r.code = 400 /\ r.expired

\* What an activation with d activations of the same function below it hands
\* to the caller of the invocation.  Each activation below awaits the
\* recursive call inside its try block, so its catch rethrows whatever comes
\* up as a token-refresh failure that embeds the original message.
Surface(o, d) ==
  IF o.kind = "error" /\ d > 0 THEN [o EXCEPT !.label = "refresh"] ELSE o

\* what one activation makes of a response that does not lead to a refresh
Direct(f, r) ==
  IF Is2xx(r.code)
  THEN IF RequiresId(f) /\ ~r.hasId
       THEN [kind |-> "error", label |-> "unexpected", cause |-> "unexpected",
             code |-> r.code, expired |-> r.expired]
       ELSE [kind |-> "result", label |-> "", cause |-> "",
             code |-> r.code, expired |-> r.expired]
  ELSE IF f = "fetchRecentReels"
  THEN [kind |-> "result", label |-> "empty", cause |-> "upstream",
        code |-> r.code, expired |-> r.expired]
  ELSE [kind |-> "error", label |-> "upstream", cause |-> "upstream",
        code |-> r.code, expired |-> r.expired]

\* (variant) fetchRecentReels has no catch of its own
Caught_Rethrows(f, o) == o

\* the outer catch of fetchRecentReels (part_000:358-361): whatever was
\* thrown inside becomes the empty list
Caught(f, o) ==
  IF f = "fetchRecentReels" /\ o.kind = "error"
  THEN [o EXCEPT !.kind = "result", !.label = "empty"]
  ELSE o

\* the throw of the else branch, rethrown by the catch that surrounds it
RefreshFailedError ==
  [kind |-> "error", label |-> "refresh", cause |-> "refreshFalse",
   code |-> 0, expired |-> FALSE]

\* a caller invokes wrapped operation f with arguments a and token t
Invoke(f, a, t) ==
  /\ Idle
  /\ t # ""
  /\ pc' = "request"
  /\ fn' = f /\ args' = a /\ token' = t
  /\ depth' = 0 /\ calls' = 0 /\ refreshes' = 0
  /\ lastReq' = NoReq /\ lastResp' = NoResp /\ outcome' = NoOutcome
  /\ UNCHANGED <<build, now, store, rpc>>
  /\ ResetRefresh /\ ResetSetup
  /\ UNCHANGED check /\ UNCHANGED sweepVars
  /\ listed' = <<>>

\* UrlFetchApp.fetch and the handling of its response up to the return, the
\* throw or the call of refreshToken()
UpstreamRespond ==
  /\ pc = "request"
  /\ \E r \in GraphResponses :
       /\ lastResp' = r
       /\ IF ~Is2xx(r.code) /\ IsSessionExpired(r)
          THEN /\ pc' = "refreshing"
               /\ refreshes' = Bump(refreshes)
               /\ outcome' = outcome
               /\ BeginRefresh
          ELSE /\ pc' = "done"
               /\ outcome' = Caught(fn, Surface(Direct(fn, r), depth))
               /\ refreshes' = refreshes
               /\ UNCHANGED rpc /\ UNCHANGED refreshVars
  /\ calls' = Bump(calls)
  /\ lastReq' = [fn |-> fn, args |-> args, token |-> token]
  /\ UNCHANGED <<build, now, store, fn, args, token, depth>>
  /\ UNCHANGED setupVars
  /\ UNCHANGED check /\ UNCHANGED sweepVars
  /\ listed' = <<>>

\* (variant) the result of refreshToken() is not looked at
AfterRefresh_AlwaysRetry ==
  /\ pc = "refreshing" /\ rpc = "ret"
  /\ rpc' = "off"
  /\ token' = store.pageToken
  /\ depth' = Bump(depth)
  /\ pc' = IF fn = "fetchRecentReels" THEN "pageinfo" ELSE "request"
  /\ outcome' = outcome
  /\ UNCHANGED <<build, now, store, fn, args, calls, refreshes, lastReq, lastResp>>
  /\ ResetRefresh
  /\ UNCHANGED setupVars
  /\ UNCHANGED check /\ UNCHANGED sweepVars
  /\ listed' = <<>>

\* refreshToken() has returned to the wrapped operation: retry with the
\* stored page token, or throw
AfterRefresh ==
  /\ pc = "refreshing" /\ rpc = "ret"
  /\ rpc' = "off"
  /\ IF rResult
     THEN /\ token' = store.pageToken
          /\ depth' = Bump(depth)
          /\ pc' = IF fn = "fetchRecentReels" THEN "pageinfo" ELSE "request"
          /\ outcome' = outcome
     ELSE /\ pc' = "done"
          /\ outcome' = Caught(fn, Surface(RefreshFailedError, depth))
          /\ UNCHANGED <<token, depth>>
  /\ UNCHANGED <<build, now, store, fn, args, calls, refreshes, lastReq, lastResp>>
  /\ ResetRefresh
  /\ UNCHANGED setupVars
  /\ UNCHANGED check /\ UNCHANGED sweepVars
  /\ listed' = <<>>

\* refreshTokenManually: the menu entry that calls refreshToken()
RefreshManually ==
  /\ Idle
  /\ pc' = "manual"
  /\ BeginRefresh
  /\ UNCHANGED <<build, now, store>>
  /\ ResetCall /\ ResetSetup
  /\ UNCHANGED check /\ UNCHANGED sweepVars
  /\ listed' = <<>>

ManualReturn ==
  /\ pc = "manual" /\ rpc = "ret"
  /\ pc' = "idle"
  /\ rpc' = "off"
  /\ UNCHANGED <<build, now, store>>
  /\ ResetRefresh
  /\ UNCHANGED callVars /\ UNCHANGED setupVars
  /\ UNCHANGED check /\ UNCHANGED sweepVars
  /\ listed' = <<>>

\* ------------------------------------------------------ checkAndRefreshToken
\* the condition under which checkAndRefreshToken calls refreshToken():
\* part_003 asks both checks, TokenManager.js the stored expiry only
NeedsRefresh(b, byApi, byStorage) ==
  IF b = "TokenManager" THEN ~byStorage ELSE ~byApi \/ ~byStorage

\* checkAndRefreshToken up to its if: the two validity answers, then either
\* the call of refreshToken() or the log line of the valid case.  The
\* TokenManager.js version does not ask the introspection; byApi is then what
\* the upstream would have answered.
checkAndRefreshToken ==
  /\ Idle
  /\ pc' = "periodic"
  /\ \E d \in DebugResponses : \E l \in LegacyAfter(d, now) :
       LET tokenInfo == getTokenInfoFromToken(d, l, now)
           byApi == IF store.userToken # ""
                    THEN isValidByApi(tokenInfo, now) ELSE FALSE
           byStorage == isValidByStorage(store.expiresAt, now)
       IN /\ check' = [NoCheck EXCEPT !.op = "checkAndRefreshToken",
                                      !.token = store.userToken, !.at = now,
                                      !.byApi = byApi, !.byStorage = byStorage]
          /\ IF NeedsRefresh(build, byApi, byStorage)
             THEN BeginRefresh
             ELSE rpc' = "off" /\ ResetRefresh
  /\ UNCHANGED <<build, now, store>>
  /\ ResetCall /\ ResetSetup
  /\ UNCHANGED sweepVars
  /\ listed' = <<>>

\* checkAndRefreshToken after its if: the result of the refresh, if any, is
\* logged and the function returns
PeriodicReturn ==
  /\ pc = "periodic" /\ rpc \in {"ret", "off"}
  /\ pc' = "idle"
  /\ rpc' = "off"
  /\ UNCHANGED <<build, now, store>>
  /\ ResetRefresh
  /\ UNCHANGED callVars /\ UNCHANGED setupVars
  /\ UNCHANGED check /\ UNCHANGED sweepVars
  /\ listed' = <<>>

\* saveAppSettings(appId, appSecret)
saveAppSettings(appId, appSecret) ==
  /\ Idle
  /\ store' = [store EXCEPT !.appId = appId, !.appSecret = appSecret]
  /\ pc' = "idle"
  /\ UNCHANGED <<build, now, rpc>>
  /\ ResetCall /\ ResetRefresh /\ ResetSetup
  /\ UNCHANGED check /\ UNCHANGED sweepVars
  /\ listed' = <<>>


\* ------------------------------------------------------------ manual setup
\* expiresAtMs of setupTokensFromLongToken (/debug_token version)
SetupExpiry_DataAccessFirst(info, t) ==
  IF info.dataAccessExpiresAt > 0 THEN info.dataAccessExpiresAt * MS
  ELSE IF info.expiresAt > 0 THEN info.expiresAt * MS
  ELSE IF info.expiresIn > 0 THEN t * MS + info.expiresIn * MS
  ELSE t * MS + SIXTY_DAYS * MS

\* lines 422-439: the expiry the manual setup stores
SetupExpiry(info, t) ==
  IF info.expiresAt > 0 THEN info.expiresAt * MS
  ELSE IF info.expiresIn > 0 THEN t * MS + info.expiresIn * MS
  ELSE t * MS + SIXTY_DAYS * MS

\* setupTokensFromLongToken with the token the operator typed in
setupTokensFromLongToken(longLivedToken) ==
  /\ Idle
  /\ pc' = "idle"
  /\ sres' = NoSetup
  /\ IF longLivedToken = ""
     THEN spc' = "l_fail" /\ sloc' = [NoSetupLocals EXCEPT !.cause = "input"]
     ELSE spc' = "l_info" /\ sloc' = [NoSetupLocals EXCEPT !.token = longLivedToken]
  /\ UNCHANGED <<build, now, store, rpc>>
  /\ ResetRefresh /\ ResetCall
  /\ UNCHANGED check /\ UNCHANGED sweepVars
  /\ listed' = <<>>

\* /debug_token version, lines 409 and 422-439: introspection and expiry
SetupIntrospect ==
  /\ spc = "l_info" /\ build = "debug_token"
  /\ \E d \in DebugResponses : \E l \in LegacyAfter(d, now) :
       LET tokenInfo == getTokenInfoFromToken(d, l, now)
       IN IF ~tokenInfo.ok
          THEN spc' = "l_fail" /\ sloc' = [sloc EXCEPT !.cause = "info"]
          ELSE /\ spc' = "l_pages"
               /\ sloc' = [sloc EXCEPT
                            !.appId = tokenInfo.appId,
                            !.expiresIn = SetupExpiry(tokenInfo, now),
                            !.tokenInfo =
                              [expiresAt |-> tokenInfo.expiresAt,
                               expiresIn |-> tokenInfo.expiresIn,
                               dataAccessExpiresAt |-> tokenInfo.dataAccessExpiresAt]]
  /\ UNCHANGED <<build, now, store, pc, rpc, sres>>
  /\ UNCHANGED callVars /\ UNCHANGED refreshVars
  /\ UNCHANGED check /\ UNCHANGED sweepVars
  /\ listed' = <<>>

\* (variant) the user token is saved before the page lookup
SetupPersist_SavesTokenFirst ==
  /\ spc = "l_pages" /\ build = "debug_token"
  /\ \E r \in PagesResponses :
       LET res == getPageTokens(sloc.token, r)
       IN IF ~res.ok \/ Len(res.pages) = 0
          THEN /\ spc' = "l_fail"
               /\ sloc' = [sloc EXCEPT !.cause = IF res.ok THEN "empty" ELSE "pages"]
               /\ store' = [store EXCEPT !.userToken = sloc.token]
               /\ UNCHANGED sres
               /\ listed' = <<>>
          ELSE /\ listed' = r.ids
               /\ store' = [userToken |-> sloc.token,
                            pageToken |-> selectedPage(res.pages).access_token,
                            pageId |-> selectedPage(res.pages).id,
                            pageName |-> selectedPage(res.pages).name,
                            expiresAt |-> sloc.expiresIn,
                            appId |-> sloc.appId,
                            appSecret |-> ""]
               /\ sres' = [op |-> "long", success |-> TRUE]
               /\ spc' = "off"
               /\ sloc' = NoSetupLocals
  /\ UNCHANGED <<build, now, pc, rpc>>
  /\ UNCHANGED callVars /\ UNCHANGED refreshVars
  /\ UNCHANGED check /\ UNCHANGED sweepVars

\* /debug_token version, lines 413-467: page lookup and the write
SetupPersist ==
  /\ spc = "l_pages" /\ build = "debug_token"
  /\ \E r \in PagesResponses :
       LET res == getPageTokens(sloc.token, r)
       IN IF ~res.ok \/ Len(res.pages) = 0
          THEN /\ spc' = "l_fail"
               /\ sloc' = [sloc EXCEPT !.cause = IF res.ok THEN "empty" ELSE "pages"]
               /\ UNCHANGED <<store, sres>>
               /\ listed' = <<>>
          ELSE /\ listed' = r.ids
               /\ store' = [userToken |-> sloc.token,
                            pageToken |-> selectedPage(res.pages).access_token,
                            pageId |-> selectedPage(res.pages).id,
                            pageName |-> selectedPage(res.pages).name,
                            expiresAt |-> sloc.expiresIn,
                            appId |-> sloc.appId,
                            appSecret |-> ""]
               /\ sres' = [op |-> "long", success |-> TRUE]
               /\ spc' = "off"
               /\ sloc' = NoSetupLocals
  /\ UNCHANGED <<build, now, pc, rpc>>
  /\ UNCHANGED callVars /\ UNCHANGED refreshVars
  /\ UNCHANGED check /\ UNCHANGED sweepVars

\* the catch of setupTokensFromLongToken (both versions)
SetupFail ==
  /\ spc = "l_fail"
  /\ spc' = "off"
  /\ sres' = [op |-> "long", success |-> FALSE]
  /\ sloc' = NoSetupLocals
  /\ UNCHANGED <<build, now, store, pc, rpc>>
  /\ UNCHANGED callVars /\ UNCHANGED refreshVars
  /\ UNCHANGED check /\ UNCHANGED sweepVars
  /\ listed' = <<>>

\* getTokenInfoFromToken of TokenManager.js: the parsed legacy response, or
\* a thrown error (ok = FALSE)
TM_getTokenInfoFromToken(l) ==
  [ok |-> Is2xx(l.code), expires_in |-> l.expires_in, app_id |-> l.app_id]

\* the lifetime setupTokensFromLongToken of TokenManager.js stores
TM_SetupExpiresIn(expires_in) == IF expires_in > 0 THEN expires_in ELSE SIXTY_DAYS

\* TokenManager.js, lines 250 and 264-270: legacy token information
TM_SetupIntrospect ==
  /\ spc = "l_info" /\ build = "TokenManager"
  /\ \E l \in LegacyResponses :
       LET tokenInfo == TM_getTokenInfoFromToken(l)
       IN IF ~tokenInfo.ok
          THEN spc' = "l_fail" /\ sloc' = [sloc EXCEPT !.cause = "info"]
          ELSE /\ spc' = "l_pages"
               /\ sloc' = [sloc EXCEPT !.expiresIn = TM_SetupExpiresIn(tokenInfo.expires_in)]
  /\ UNCHANGED <<build, now, store, pc, rpc, sres>>
  /\ UNCHANGED callVars /\ UNCHANGED refreshVars
  /\ UNCHANGED check /\ UNCHANGED sweepVars
  /\ listed' = <<>>

\* TokenManager.js, lines 254-296: page lookup and the write
TM_SetupPersist ==
  /\ spc = "l_pages" /\ build = "TokenManager"
  /\ \E r \in PagesResponses :
       LET res == getPageTokens(sloc.token, r)
       IN IF ~res.ok \/ Len(res.pages) = 0
          THEN /\ spc' = "l_fail"
               /\ sloc' = [sloc EXCEPT !.cause = IF res.ok THEN "empty" ELSE "pages"]
               /\ UNCHANGED <<store, sres>>
               /\ listed' = <<>>
          ELSE /\ listed' = r.ids
               /\ store' = [store EXCEPT
                              !.userToken = sloc.token,
                              !.pageToken = selectedPage(res.pages).access_token,
                              !.pageId = selectedPage(res.pages).id,
                              !.pageName = selectedPage(res.pages).name,
                              !.expiresAt = now * MS + sloc.expiresIn * MS]
               /\ sres' = [op |-> "long", success |-> TRUE]
               /\ spc' = "off"
               /\ sloc' = NoSetupLocals
  /\ UNCHANGED <<build, now, pc, rpc>>
  /\ UNCHANGED callVars /\ UNCHANGED refreshVars
  /\ UNCHANGED check /\ UNCHANGED sweepVars

\* ------------------------------------------------- short-lived onboarding
\* 3600 seconds, in hours
HOUR == 1
\* the 12 hours of replyUnrepliedCommentsLast12h
HALF_DAY == 12

\* getAppInfoFromToken: ok = FALSE is a thrown error
getAppInfoFromToken(l) ==
  [ok |-> Is2xx(l.code) /\ l.app_id # "", appId |-> l.app_id, appSecret |-> l.app_secret]

\* the lifetime setupTokensFromShortLived stores for the exchanged expiresIn
OnboardExpiresIn(expiresIn) ==
  IF expiresIn > 0 /\ expiresIn > HOUR THEN expiresIn ELSE SIXTY_DAYS

setupTokensFromShortLived(shortLivedToken) ==
  /\ Idle /\ build = "TokenManager"
  /\ spc' = "info"
  /\ sloc' = [NoSetupLocals EXCEPT !.token = shortLivedToken]
  /\ sres' = NoSetup
  /\ pc' = "idle"
  /\ UNCHANGED <<build, now, store, rpc>>
  /\ ResetRefresh /\ ResetCall
  /\ UNCHANGED check /\ UNCHANGED sweepVars
  /\ listed' = <<>>

\* line 366: the token is checked against the legacy endpoint
OnboardInfo ==
  /\ spc = "info"
  /\ \E l \in LegacyResponses :
       IF TM_getTokenInfoFromToken(l).ok
       THEN spc' = "app" /\ sloc' = sloc
       ELSE spc' = "fail" /\ sloc' = [sloc EXCEPT !.cause = "info"]
  /\ UNCHANGED <<build, now, store, pc, rpc, sres>>
  /\ UNCHANGED callVars /\ UNCHANGED refreshVars
  /\ UNCHANGED check /\ UNCHANGED sweepVars
  /\ listed' = <<>>

\* lines 370-381: the app information is fetched and saved at once
OnboardApp ==
  /\ spc = "app"
  /\ \E l \in LegacyResponses :
       LET appInfo == getAppInfoFromToken(l)
       IN IF appInfo.ok
          THEN /\ store' = [store EXCEPT !.appId = appInfo.appId,
                                         !.appSecret = appInfo.appSecret]
               /\ sloc' = [sloc EXCEPT !.appFound = TRUE]
          ELSE /\ store' = store
               /\ sloc' = sloc
  /\ spc' = "x_app"
  /\ UNCHANGED <<build, now, pc, rpc, sres>>
  /\ UNCHANGED callVars /\ UNCHANGED refreshVars
  /\ UNCHANGED check /\ UNCHANGED sweepVars
  /\ listed' = <<>>

\* exchangeToLongLivedToken, line 68: the app information once more
ExchangeAppInfo ==
  /\ spc = "x_app"
  /\ \E l \in LegacyResponses :
       LET appInfo == getAppInfoFromToken(l)
       IN IF ~appInfo.ok
          THEN spc' = "x_catch" /\ sloc' = sloc
          ELSE IF appInfo.appSecret = ""
          THEN spc' = "x_info" /\ sloc' = sloc
          ELSE /\ spc' = "x_exchange"
               /\ sloc' = [sloc EXCEPT !.appId = appInfo.appId,
                                       !.appSecret = appInfo.appSecret]
  /\ UNCHANGED <<build, now, store, pc, rpc, sres>>
  /\ UNCHANGED callVars /\ UNCHANGED refreshVars
  /\ UNCHANGED check /\ UNCHANGED sweepVars
  /\ listed' = <<>>

\* exchangeToLongLivedToken, lines 82-111: the exchange call
ExchangeCall ==
  /\ spc = "x_exchange"
  /\ \E r \in ExchangeResponses :
       IF ~Is2xx(r.code)
       THEN spc' = "x_info" /\ sloc' = [sloc EXCEPT !.exchangeFailed = TRUE]
       ELSE IF r.access_token = ""
       THEN spc' = "x_catch" /\ sloc' = sloc
       ELSE /\ spc' = "pages"
            /\ sloc' = [sloc EXCEPT !.accessToken = r.access_token,
                                    !.expiresIn = r.expires_in]
  /\ UNCHANGED <<build, now, store, pc, rpc, sres>>
  /\ UNCHANGED callVars /\ UNCHANGED refreshVars
  /\ UNCHANGED check /\ UNCHANGED sweepVars
  /\ listed' = <<>>

\* exchangeToLongLivedToken, lines 73-78 and 94-99: the short token is kept,
\* with the lifetime the legacy endpoint reports
ExchangeKeepShort ==
  /\ spc = "x_info"
  /\ \E l \in LegacyResponses :
       LET tokenInfo == TM_getTokenInfoFromToken(l)
       IN IF tokenInfo.ok
          THEN /\ spc' = "pages"
               /\ sloc' = [sloc EXCEPT !.accessToken = sloc.token,
                                       !.expiresIn = tokenInfo.expires_in]
          ELSE spc' = "x_catch" /\ sloc' = sloc
  /\ UNCHANGED <<build, now, store, pc, rpc, sres>>
  /\ UNCHANGED callVars /\ UNCHANGED refreshVars
  /\ UNCHANGED check /\ UNCHANGED sweepVars
  /\ listed' = <<>>

\* exchangeToLongLivedToken, lines 112-121: the catch asks the legacy
\* endpoint again; an error of that call leaves the function
ExchangeCatch ==
  /\ spc = "x_catch"
  /\ \E l \in LegacyResponses :
       LET tokenInfo == TM_getTokenInfoFromToken(l)
       IN IF tokenInfo.ok
          THEN /\ spc' = "pages"
               /\ sloc' = [sloc EXCEPT !.accessToken = sloc.token,
                                       !.expiresIn = tokenInfo.expires_in]
          ELSE spc' = "fail" /\ sloc' = [sloc EXCEPT !.cause = "exchange"]
  /\ UNCHANGED <<build, now, store, pc, rpc, sres>>
  /\ UNCHANGED callVars /\ UNCHANGED refreshVars
  /\ UNCHANGED check /\ UNCHANGED sweepVars
  /\ listed' = <<>>

\* lines 387-433: the page lookup, the expiry and the write
OnboardPages ==
  /\ spc = "pages"
  /\ \E r \in PagesResponses :
       LET res == getPageTokens(sloc.accessToken, r)
       IN IF ~res.ok \/ Len(res.pages) = 0
          THEN /\ spc' = "fail"
               /\ sloc' = [sloc EXCEPT !.cause = IF res.ok THEN "empty" ELSE "pages"]
               /\ UNCHANGED <<store, sres>>
               /\ listed' = <<>>
          ELSE /\ listed' = r.ids
               /\ store' = [store EXCEPT
                              !.userToken = sloc.accessToken,
                              !.pageToken = selectedPage(res.pages).access_token,
                              !.pageId = selectedPage(res.pages).id,
                              !.pageName = selectedPage(res.pages).name,
                              !.expiresAt = now * MS
                                  + OnboardExpiresIn(sloc.expiresIn) * MS]
               /\ sres' = [op |-> "short", success |-> TRUE]
               /\ spc' = "off"
               /\ sloc' = NoSetupLocals
  /\ UNCHANGED <<build, now, pc, rpc>>
  /\ UNCHANGED callVars /\ UNCHANGED refreshVars
  /\ UNCHANGED check /\ UNCHANGED sweepVars

\* lines 434-440: the catch of setupTokensFromShortLived
OnboardFail ==
  /\ spc = "fail"
  /\ spc' = "off"
  /\ sres' = [op |-> "short", success |-> FALSE]
  /\ sloc' = NoSetupLocals
  /\ UNCHANGED <<build, now, store, pc, rpc>>
  /\ UNCHANGED callVars /\ UNCHANGED refreshVars
  /\ UNCHANGED check /\ UNCHANGED sweepVars
  /\ listed' = <<>>

\* --------------------------------------------------------------- the sweeps
\* the sweep has returned (pc = "done") or thrown: its locals are gone
Returned(op, pc0, error) == [NoSweep EXCEPT !.op = op, !.pc = pc0, !.error = error]

\* a sweep can start
SweepIdle == Idle /\ sw.pc \in {"off", "done", "failed"}

\* The credential stores a wrapped operation can leave behind: the one it
\* found or, when it ran refreshToken(), the one that refresh wrote (here
\* for an exchange that answers user token u2 with a lifetime of 25 hours
\* and a page list that begins with p2).
StoresAfterCall(st) ==
  IF ~RefreshCanProceed(build, st.userToken, st.appId, st.appSecret)
  THEN {st}
  ELSE LET u == IF build = "debug_token" /\ Degraded(st.appId, st.appSecret)
                THEN st.userToken ELSE "u2"
       IN {st, RefreshedStore(build, st,
                              [NoLocals EXCEPT !.userToken = st.userToken,
                                               !.appId = st.appId,
                                               !.appSecret = st.appSecret,
                                               !.accessToken = u,
                                               !.page = Candidate(u, "p2"),
                                               !.expiresIn = 25,
                                               !.expiresAtMs = 26 * MS], now)}

\* getTargetPostIds calls fetchRecentReels(t, lookbackDays, maxCount)
InvokeReels(t) ==
  /\ Idle
  /\ t # ""
  /\ pc' = "pageinfo"
  /\ fn' = "fetchRecentReels" /\ args' = "" /\ token' = t
  /\ depth' = 0 /\ calls' = 0 /\ refreshes' = 0
  /\ lastReq' = NoReq /\ lastResp' = NoResp /\ outcome' = NoOutcome
  /\ UNCHANGED <<build, now, store, rpc>>
  /\ ResetRefresh /\ ResetSetup
  /\ UNCHANGED check /\ UNCHANGED sweepVars
  /\ listed' = <<>>

\* line 309 of fetchRecentReels: getPageInfo(token), itself a wrapped
\* operation; when it throws, the catch of this activation returns []
ReelsPageInfo ==
  /\ pc = "pageinfo"
  /\ \E ok \in BOOLEAN :
       IF ok
       THEN pc' = "request" /\ outcome' = outcome
       ELSE /\ pc' = "done"
            /\ outcome' = Caught(fn, [kind |-> "error", label |-> "pageInfo",
                                      cause |-> "pageInfo", code |-> 0,
                                      expired |-> FALSE])
  /\ store' \in StoresAfterCall(store)
  /\ UNCHANGED <<build, now, rpc, fn, args, token, depth, calls, refreshes,
                 lastReq, lastResp>>
  /\ UNCHANGED refreshVars /\ UNCHANGED setupVars
  /\ UNCHANGED check /\ UNCHANGED sweepVars
  /\ listed' = <<>>

\* the comments of each post, oldest first (two of post a, one of them
\* listed under post b as well)
UpstreamComments(postId) ==
  CASE postId = "a" -> <<"c1", "c2">>
    [] postId = "b" -> <<"c2">>
    [] OTHER -> <<>>

\* the comments the upstream lists for a post and a limit
fetchComments(postId, limit) ==
  SubSeq(UpstreamComments(postId), 1, Min(limit, Len(UpstreamComments(postId))))

RECURSIVE Dedup(_)
\* the first occurrence of every id, in order
Dedup(ids) ==
  IF ids = <<>> THEN <<>>
  ELSE LET rest == Dedup(SubSeq(ids, 1, Len(ids) - 1))
           x == ids[Len(ids)]
       IN IF \E i \in 1..Len(rest) : rest[i] = x THEN rest ELSE Append(rest, x)

\* String.trim for the entries of the post-id setting: blanks around an id
\* are dropped
trim(entry) ==
  CASE entry = " a" -> "a" [] entry = "b " -> "b" [] entry = " " -> ""
    [] OTHER -> entry

\* (variant) the configured ids are merged with the discovered ones
getTargetPostIds_AlwaysDiscover(manual, auto, posts, reels) ==
  LET manualPostIds == SelectSeq([i \in 1..Len(manual) |-> trim(manual[i])],
                                 LAMBDA id : id # "")
  IN IF auto THEN Dedup(manualPostIds \o posts \o reels)
     ELSE manualPostIds

\* getTargetPostIds: manual: the entries of the comma-separated setting,
\* auto: the auto-discovery setting, posts and reels: what the upstream lists
getTargetPostIds(manual, auto, posts, reels) ==
  LET manualPostIds == SelectSeq([i \in 1..Len(manual) |-> trim(manual[i])],
                                 LAMBDA id : id # "")
  IN IF Len(manualPostIds) > 0 THEN manualPostIds
     ELSE IF auto THEN Dedup(posts \o reels)
     ELSE <<>>

\* line 77: the auto-discovery setting reads as true when it is empty or
\* 'true' in any case
autoDiscovery(setting) ==
  LET text == IF setting = "" THEN "true" ELSE setting
  IN text \in {"true", "TRUE"}

\* a call of getTargetPostIds(token, settings) with the settings and the
\* upstream of targets: no upstream call when an id is configured, else the
\* page check and the two listings when auto-discovery is on
CallGetTargetPostIds ==
  /\ targets.pc = "input"
  /\ LET auto == autoDiscovery(targets.autoDiscovery)
         configured == getTargetPostIds(targets.postIds, FALSE, <<>>, <<>>) # <<>>
         discovers == ~configured /\ auto
     IN IF discovers /\ ~targets.pageInfoOk
        THEN targets' = [targets EXCEPT !.pc = "thrown",
                                         !.called = <<"getPageInfo">>]
        ELSE targets' =
               [targets EXCEPT
                  !.pc = "returned",
                  !.result = getTargetPostIds(targets.postIds, auto,
                                              targets.posts, targets.reels),
                  !.called = IF discovers
                             THEN <<"getPageInfo", "fetchRecentPosts",
                                    "fetchRecentReels">>
                             ELSE <<>>]
  /\ UNCHANGED <<build, now, store, pc, rpc, check, listed, sw, sheet, triggers>>
  /\ UNCHANGED callVars /\ UNCHANGED refreshVars /\ UNCHANGED setupVars

\* what fetchRecentPosts or fetchRecentReels can list (at most n ids); they
\* are called only when no post id is configured and auto-discovery is on
Discovered(manual, auto, n) ==
  IF SelectSeq(manual, LAMBDA id : id # "") = <<>> /\ auto
  THEN SeqsUpTo(Posts, n) ELSE {<<>>}

\* fetchAndRespond and replyUnrepliedCommentsLast12h up to the first fetch:
\* the token, the target posts, the set of ids to skip
StartCommentSweep(op, manual, auto) ==
  /\ SweepIdle
  /\ IF store.pageToken = ""
     THEN /\ sw' = Returned(op, "failed", "token")
          /\ store' = store
     ELSE \E ok \in BOOLEAN :
          \E posts \in Discovered(manual, auto, MaxPosts),
             reels \in Discovered(manual, auto, 1) :
            LET discovers == SelectSeq(manual, LAMBDA id : id # "") = <<>> /\ auto
                postIds == getTargetPostIds(manual, auto, posts, reels)
            IN /\ IF discovers THEN store' \in StoresAfterCall(store)
                  ELSE store' = store
               /\ ok \/ discovers
               /\ IF discovers /\ ~ok
                  THEN sw' = Returned(op, "failed", "discovery")
                  ELSE IF Len(postIds) = 0
                  THEN sw' = Returned(op, "failed", "no_posts")
                  ELSE sw' = [NoSweep EXCEPT
                                !.op = op, !.pc = "fetch",
                                !.token = store.pageToken,
                                !.postIds = postIds,
                                !.sinceMs =
                                  IF op = "replyUnrepliedCommentsLast12h"
                                  THEN now * MS - HALF_DAY * MS ELSE 0,
                                !.seen = IF op = "fetchAndRespond"
                                         THEN sheet.processed
                                         ELSE {c \in Comments :
                                                 <<c, "replied">> \in sheet.logs}]
  /\ UNCHANGED <<build, now, pc, rpc, sheet>>
  /\ UNCHANGED callVars /\ UNCHANGED refreshVars /\ UNCHANGED setupVars
  /\ UNCHANGED check /\ UNCHANGED triggers /\ UNCHANGED targets
  /\ listed' = <<>>

\* the head of the loop over the posts: the comments of the next post are
\* fetched; a failure of the fetch ends the sweep
FetchPostComments ==
  /\ sw.pc = "fetch"
  /\ IF sw.postIds = <<>>
     THEN sw' = Returned(sw.op, "done", "") /\ store' = store
     ELSE \E ok \in BOOLEAN :
            /\ store' \in StoresAfterCall(store)
            /\ sw' = IF ok
                     THEN LET comments == fetchComments(Head(sw.postIds),
                                                       MaxComments)
                          IN [sw EXCEPT
                                !.pc = "comment",
                                !.comments = comments,
                                !.fetched =
                                  IF sw.op = "replyUnrepliedCommentsLast12h"
                                  THEN @ + Len(comments) ELSE @,
                                !.postIds = Tail(sw.postIds)]
                     ELSE Returned(sw.op, "failed", "fetch")
  /\ UNCHANGED <<build, now, pc, rpc, sheet>>
  /\ UNCHANGED callVars /\ UNCHANGED refreshVars /\ UNCHANGED setupVars
  /\ UNCHANGED check /\ UNCHANGED triggers /\ UNCHANGED targets
  /\ listed' = <<>>

\* what one pass of the loop over the comments leaves in sw
Handled(result) ==
  [sw EXCEPT !.comments = Tail(sw.comments), !.last = result]

\* (variant) a comment is recorded as processed whether or not its reply
\* was posted
processComment_RecordsOnError ==
  /\ sw.pc = "comment" /\ sw.op = "fetchAndRespond"
  /\ IF sw.comments = <<>>
     THEN sw' = [sw EXCEPT !.pc = "fetch"] /\ UNCHANGED <<store, sheet>>
     ELSE LET c == Head(sw.comments)
          IN \E matched \in BOOLEAN, replied \in BOOLEAN :
               IF c \in sw.seen
               THEN sw' = Handled("skipped") /\ UNCHANGED <<store, sheet>>
               ELSE IF ~matched
               THEN /\ sw' = Handled("no_match")
                    /\ sheet' = [sheet EXCEPT
                                   !.processed = @ \cup {c},
                                   !.logs = @ \cup {<<c, "no_match">>}]
                    /\ store' = store
               ELSE /\ store' \in StoresAfterCall(store)
                    /\ sw' = [Handled(IF replied THEN "replied" ELSE "error")
                                EXCEPT !.attempts[c] = Tally(@)]
                    /\ sheet' = IF replied
                                THEN [sheet EXCEPT
                                        !.replies[c] = Tally(@),
                                        !.processed = @ \cup {c},
                                        !.logs = @ \cup {<<c, "replied">>}]
                                ELSE [sheet EXCEPT
                                        !.processed = @ \cup {c},
                                        !.logs = @ \cup {<<c, "error">>}]
  /\ UNCHANGED <<build, now, pc, rpc>>
  /\ UNCHANGED callVars /\ UNCHANGED refreshVars /\ UNCHANGED setupVars
  /\ UNCHANGED check /\ UNCHANGED triggers /\ UNCHANGED targets
  /\ listed' = <<>>

\* one pass of the loop over the comments of a post (processComments 17-42):
\* skip, record a comment no rule matches, or reply and record
processComment ==
  /\ sw.pc = "comment" /\ sw.op = "fetchAndRespond"
  /\ IF sw.comments = <<>>
     THEN sw' = [sw EXCEPT !.pc = "fetch"] /\ UNCHANGED <<store, sheet>>
     ELSE LET c == Head(sw.comments)
          IN \E matched \in BOOLEAN, replied \in BOOLEAN :
               IF c \in sw.seen
               THEN sw' = Handled("skipped") /\ UNCHANGED <<store, sheet>>
               ELSE IF ~matched
               THEN /\ sw' = Handled("no_match")
                    /\ sheet' = [sheet EXCEPT
                                   !.processed = @ \cup {c},
                                   !.logs = @ \cup {<<c, "no_match">>}]
                    /\ store' = store
               ELSE /\ store' \in StoresAfterCall(store)
                    /\ sw' = [Handled(IF replied THEN "replied" ELSE "error")
                                EXCEPT !.attempts[c] = Tally(@)]
                    /\ sheet' = IF replied
                                THEN [sheet EXCEPT
                                        !.replies[c] = Tally(@),
                                        !.processed = @ \cup {c},
                                        !.logs = @ \cup {<<c, "replied">>}]
                                ELSE [sheet EXCEPT
                                        !.logs = @ \cup {<<c, "error">>}]
  /\ UNCHANGED <<build, now, pc, rpc>>
  /\ UNCHANGED callVars /\ UNCHANGED refreshVars /\ UNCHANGED setupVars
  /\ UNCHANGED check /\ UNCHANGED triggers /\ UNCHANGED targets
  /\ listed' = <<>>

\* what fetchCommentsSince can return for the comment c of the upstream:
\* without created_time, created an hour before sinceMs, at sinceMs or an
\* hour after it, or without its id
Items(c, sinceMs) ==
  {[id |-> c, created |-> t] : t \in {0, sinceMs - MS, sinceMs, sinceMs + MS}}
    \cup {[id |-> "", created |-> sinceMs + MS]}

\* (variant) only a missing creation time is looked at
TooOld_MissingOnly(created, sinceMs) == created = 0

\* line 160 of replyUnrepliedCommentsLast12h: `!created || created < sinceMs`
TooOld(created, sinceMs) == created = 0 \/ created < sinceMs

\* one pass of the loop over the comments of a post in
\* replyUnrepliedCommentsLast12h (lines 152-186): skip (no id, replied
\* before, too old, or no rule matches), or reply and record
replyUnreplied ==
  /\ sw.pc = "comment" /\ sw.op = "replyUnrepliedCommentsLast12h"
  /\ IF sw.comments = <<>>
     THEN /\ sw' = [sw EXCEPT !.pc = "fetch", !.item = NoItem]
          /\ UNCHANGED <<store, sheet>>
     ELSE \E item \in Items(Head(sw.comments), sw.sinceMs) :
            LET c == item.id
            IN IF c = "" \/ c \in sw.seen \/ TooOld(item.created, sw.sinceMs)
               THEN /\ sw' = [Handled("skipped") EXCEPT !.item = item,
                                                        !.skipped = @ + 1]
                    /\ UNCHANGED <<store, sheet>>
               ELSE \/ /\ sw' = [Handled("skipped") EXCEPT !.item = item,
                                                           !.total = @ + 1,
                                                           !.skipped = @ + 1]
                       /\ UNCHANGED <<store, sheet>>
                    \/ \E replied \in BOOLEAN :
                         /\ store' \in StoresAfterCall(store)
                         /\ sw' = [Handled(IF replied THEN "replied" ELSE "error")
                                     EXCEPT !.item = item,
                                            !.attempts[c] = Tally(@),
                                            !.total = @ + 1,
                                            !.replied = IF replied THEN @ + 1 ELSE @,
                                            !.failed = IF replied THEN @ ELSE @ + 1]
                         /\ sheet' = IF replied
                                     THEN [sheet EXCEPT
                                             !.replies[c] = Tally(@),
                                             !.processed = @ \cup {c},
                                             !.logs = @ \cup {<<c, "replied">>}]
                                     ELSE [sheet EXCEPT
                                             !.logs = @ \cup {<<c, "error">>}]
  /\ UNCHANGED <<build, now, pc, rpc>>
  /\ UNCHANGED callVars /\ UNCHANGED refreshVars /\ UNCHANGED setupVars
  /\ UNCHANGED check /\ UNCHANGED triggers /\ UNCHANGED targets
  /\ listed' = <<>>

\* processScheduledPosts up to the loop (lines 304-333): the sheet, the
\* token and its validity; an invalid token starts refreshToken()
processScheduledPosts ==
  /\ SweepIdle
  /\ IF Len(sheet.rows) = 0
     THEN /\ sw' = Returned("processScheduledPosts", "done", "")
          /\ UNCHANGED rpc /\ UNCHANGED refreshVars
     ELSE IF store.pageToken = ""
     THEN /\ sw' = Returned("processScheduledPosts", "failed", "token")
          /\ UNCHANGED rpc /\ UNCHANGED refreshVars
     ELSE \E d \in DebugResponses : \E l \in LegacyAfter(d, now) :
            LET valid == IF build = "debug_token"
                         THEN isValidByApi(getTokenInfoFromToken(d, l, now), now)
                         ELSE isValidByStorage(store.expiresAt, now)
                started == [NoSweep EXCEPT !.op = "processScheduledPosts",
                                           !.token = store.pageToken,
                                           !.rows0 = sheet.rows]
            IN IF valid
               THEN /\ sw' = [started EXCEPT
                                !.pc = "rows", !.rows = sheet.rows,
                                !.todo = [i \in 1..Len(sheet.rows) |-> i]]
                    /\ UNCHANGED rpc /\ UNCHANGED refreshVars
               ELSE /\ sw' = [started EXCEPT !.pc = "refresh"]
                    /\ BeginRefresh
  /\ UNCHANGED <<build, now, store, pc, sheet>>
  /\ UNCHANGED callVars /\ UNCHANGED setupVars
  /\ UNCHANGED check /\ UNCHANGED triggers /\ UNCHANGED targets
  /\ listed' = <<>>

\* (variant) the token read before the refresh is kept
ScheduledAfterRefresh_KeepsToken ==
  /\ sw.pc = "refresh" /\ rpc = "ret"
  /\ rpc' = "off"
  /\ IF rResult
     THEN sw' = [sw EXCEPT !.pc = "rows", !.refreshed = TRUE,
                           !.reread = store.pageToken,
                           !.rows = sheet.rows,
                           !.todo = [i \in 1..Len(sheet.rows) |-> i]]
     ELSE sw' = [sw EXCEPT !.pc = "failed", !.error = "refresh"]
  /\ UNCHANGED <<build, now, store, pc, sheet>>
  /\ ResetRefresh
  /\ UNCHANGED callVars /\ UNCHANGED setupVars
  /\ UNCHANGED check /\ UNCHANGED triggers /\ UNCHANGED targets
  /\ listed' = <<>>

\* lines 318-330: refreshToken() has returned to the sweep: the page token is
\* read again, or the sweep throws
ScheduledAfterRefresh ==
  /\ sw.pc = "refresh" /\ rpc = "ret"
  /\ rpc' = "off"
  /\ IF rResult
     THEN sw' = [sw EXCEPT !.pc = "rows", !.refreshed = TRUE,
                           !.token = store.pageToken,
                           !.reread = store.pageToken,
                           !.rows = sheet.rows,
                           !.todo = [i \in 1..Len(sheet.rows) |-> i]]
     ELSE sw' = [sw EXCEPT !.pc = "failed", !.error = "refresh"]
  /\ UNCHANGED <<build, now, store, pc, sheet>>
  /\ ResetRefresh
  /\ UNCHANGED callVars /\ UNCHANGED setupVars
  /\ UNCHANGED check /\ UNCHANGED triggers /\ UNCHANGED targets
  /\ listed' = <<>>

\* parseInt(v, 10) for the values of the hour and minute columns, and
\* whether it is a number (isNaN is true of what does not begin with a digit)
parseInt(v) == CASE v = "0" -> 0 [] v = "1" -> 1 [] v = "2" -> 2
IsNumber(v) == v \in {"0", "1", "2"}

\* new Date(dateVal).getTime() for the values of the date column, in hours
\* ("d0" is the day that began at clock 0), and whether it is a number
DateTime(d) == CASE d = "d0" -> 0
IsDate(d) == d \in {"d0"}

\* The columns the operator fills in for a row: the enabled flag ("on" is
\* '有効'), the body, the date, the hour and the minute.  DueCell is a row
\* scheduled at clock 0; the others differ from it in one column.
DueCell == [enabled |-> "on", body |-> "text", date |-> "d0", hour |-> "0",
            minute |-> "0"]
Cells ==
  {DueCell, [DueCell EXCEPT !.enabled = "off"], [DueCell EXCEPT !.body = ""],
   [DueCell EXCEPT !.date = ""], [DueCell EXCEPT !.date = "bad"],
   [DueCell EXCEPT !.hour = "x"], [DueCell EXCEPT !.minute = ""],
   [DueCell EXCEPT !.hour = "1"], [DueCell EXCEPT !.hour = "2"]}

\* (variant) the enabled flag is not looked at
ShouldPost_IgnoresEnabled(cell, status, t) ==
  /\ status = "scheduled"
  /\ cell.body # ""
  /\ cell.date # "" /\ IsDate(cell.date)
  /\ IsNumber(cell.hour) /\ IsNumber(cell.minute)
  /\ t >= DateTime(cell.date) + parseInt(cell.hour)

\* lines 341-354: whether the loop calls createPagePost for a row at clock t
\* (the five `continue`s and the comparison with the scheduled time; the
\* clock counts hours, so the minute adds nothing to the scheduled time)
ShouldPost(cell, status, t) ==
  /\ cell.enabled = "on"
  /\ status = "scheduled"
  /\ cell.body # ""
  /\ cell.date # "" /\ IsDate(cell.date)
  /\ IsNumber(cell.hour) /\ IsNumber(cell.minute)
  /\ t >= DateTime(cell.date) + parseInt(cell.hour)

\* (variant) a failed post leaves the status of its row as it was
processRow_NoFailureStatus ==
  /\ sw.pc = "rows"
  /\ IF sw.todo = <<>>
     THEN /\ sw' = [Returned(sw.op, "done", "") EXCEPT
                      !.posted = sw.posted, !.failed = sw.failed,
                      !.attempted = sw.attempted]
          /\ UNCHANGED <<store, sheet>>
     ELSE LET i == Head(sw.todo)
          IN \E cell \in Cells, posted \in BOOLEAN :
               IF ~ShouldPost(cell, sw.rows[i], now)
               THEN /\ sw' = [sw EXCEPT !.todo = Tail(sw.todo), !.cell = cell]
                    /\ UNCHANGED <<store, sheet>>
               ELSE /\ store' \in StoresAfterCall(store)
                    /\ sw' = [sw EXCEPT !.todo = Tail(sw.todo), !.cell = cell,
                                        !.postTokens = @ \cup {sw.token},
                                        !.attempted = @ + 1,
                                        !.posted = IF posted THEN @ + 1 ELSE @,
                                        !.failed = IF posted THEN @ ELSE @ + 1]
                    /\ sheet' = [sheet EXCEPT
                                   !.tried[i] = Tally(@),
                                   !.posts[i] = IF posted THEN Tally(@) ELSE @,
                                   !.rows[i] = IF posted THEN "sent" ELSE @]
  /\ UNCHANGED <<build, now, pc, rpc>>
  /\ UNCHANGED callVars /\ UNCHANGED refreshVars /\ UNCHANGED setupVars
  /\ UNCHANGED check /\ UNCHANGED triggers /\ UNCHANGED targets
  /\ listed' = <<>>

\* one pass of the loop over the rows (lines 338-375), or the return of the
\* counters (376); cell: what the operator has put in the row
processRow ==
  /\ sw.pc = "rows"
  /\ IF sw.todo = <<>>
     THEN /\ sw' = [Returned(sw.op, "done", "") EXCEPT
                      !.posted = sw.posted, !.failed = sw.failed,
                      !.attempted = sw.attempted]
          /\ UNCHANGED <<store, sheet>>
     ELSE LET i == Head(sw.todo)
          IN \E cell \in Cells, posted \in BOOLEAN :
               IF ~ShouldPost(cell, sw.rows[i], now)
               THEN /\ sw' = [sw EXCEPT !.todo = Tail(sw.todo), !.cell = cell]
                    /\ UNCHANGED <<store, sheet>>
               ELSE /\ store' \in StoresAfterCall(store)
                    /\ sw' = [sw EXCEPT !.todo = Tail(sw.todo), !.cell = cell,
                                        !.postTokens = @ \cup {sw.token},
                                        !.attempted = @ + 1,
                                        !.posted = IF posted THEN @ + 1 ELSE @,
                                        !.failed = IF posted THEN @ ELSE @ + 1]
                    /\ sheet' = [sheet EXCEPT
                                   !.tried[i] = Tally(@),
                                   !.posts[i] = IF posted THEN Tally(@) ELSE @,
                                   !.rows[i] = IF posted THEN "sent" ELSE "failed"]
  /\ UNCHANGED <<build, now, pc, rpc>>
  /\ UNCHANGED callVars /\ UNCHANGED refreshVars /\ UNCHANGED setupVars
  /\ UNCHANGED check /\ UNCHANGED triggers /\ UNCHANGED targets
  /\ listed' = <<>>

\* ----------------------------------------------------------------- triggers
\* bound: the triggers the operator installs by hand
MaxTriggers == 2
\* targetHandlers of resetAutomationTriggers, and the handlers of the
\* triggers an operator installs by hand
AutomationHandlers == {"processScheduledPosts", "fetchAndRespond"}
OtherHandlers == {"checkAndRefreshToken", "replyUnrepliedCommentsLast12h"}

HasTrigger(list, handlerName) == \E i \in 1..Len(list) : list[i] = handlerName

\* (variant) the trigger is created whether or not one exists
ensureMinutesTrigger_NoLookup(list, handlerName) == Append(list, handlerName)

\* ensureMinutesTrigger(handlerName, minutes): the list after the call
ensureMinutesTrigger(list, handlerName) ==
  IF HasTrigger(list, handlerName) THEN list ELSE Append(list, handlerName)

\* ensureAutomationTriggers: setupScheduledPostsTrigger, then
\* setupAutoReplyTrigger; thrown is the handler whose create() threw, which
\* ends the try
ensureAutomationTriggers ==
  /\ \E thrown \in AutomationHandlers \cup {""} :
       LET first == IF thrown = "processScheduledPosts" THEN triggers.list
                    ELSE ensureMinutesTrigger(triggers.list, "processScheduledPosts")
           second == IF thrown # "" THEN first
                     ELSE ensureMinutesTrigger(first, "fetchAndRespond")
       IN /\ thrown = "processScheduledPosts" =>
               ~HasTrigger(triggers.list, thrown)
          /\ thrown = "fetchAndRespond" => ~HasTrigger(first, thrown)
          /\ triggers' = [list |-> second, op |-> "ensureAutomationTriggers",
                          raised |-> FALSE]
  /\ UNCHANGED <<build, now, store, pc, rpc, check, listed, sw, sheet, targets>>
  /\ UNCHANGED callVars /\ UNCHANGED refreshVars /\ UNCHANGED setupVars

\* resetAutomationTriggers: every trigger of the two handlers is deleted, in
\* the order of the list; k > 0: deleteTrigger threw at the k-th trigger and
\* the error is thrown again
resetAutomationTriggers ==
  /\ \E k \in 0..Len(triggers.list) :
       LET Kept(h) == h \notin AutomationHandlers
           list == triggers.list
       IN IF k = 0
          THEN triggers' = [list |-> SelectSeq(list, Kept),
                            op |-> "resetAutomationTriggers", raised |-> FALSE]
          ELSE /\ list[k] \in AutomationHandlers
               /\ triggers' = [list |-> SelectSeq(SubSeq(list, 1, k - 1), Kept)
                                          \o SubSeq(list, k, Len(list)),
                               op |-> "resetAutomationTriggers", raised |-> TRUE]
  /\ UNCHANGED <<build, now, store, pc, rpc, check, listed, sw, sheet, targets>>
  /\ UNCHANGED callVars /\ UNCHANGED refreshVars /\ UNCHANGED setupVars

\* the operator installs a trigger for another handler in the script editor
InstallTrigger(handlerName) ==
  /\ Len(SelectSeq(triggers.list, LAMBDA h : h \in OtherHandlers)) < MaxTriggers
  /\ triggers' = [list |-> Append(triggers.list, handlerName), op |-> "install",
                  raised |-> FALSE]
  /\ UNCHANGED <<build, now, store, pc, rpc, check, listed, sw, sheet, targets>>
  /\ UNCHANGED callVars /\ UNCHANGED refreshVars /\ UNCHANGED setupVars

\* ---------------------------------------------------------- specification
Next ==
  \/ Tick
  \/ \E f \in WrappedOps, a \in Args : Invoke(f, a, store.pageToken)
  \/ UpstreamRespond
  \/ AfterRefresh
  \/ RefreshManually
  \/ ManualReturn
  \/ RefreshRead
  \/ RefreshExchange
  \/ RefreshPages
  \/ RefreshIntrospect
  \/ RefreshPersist
  \/ RefreshSheet
  \/ RefreshCatch
  \/ \E a \in AppIds \cup {""}, s \in AppSecrets \cup {""} : saveAppSettings(a, s)
  \/ \E u \in UserTokens \cup {""} : setupTokensFromLongToken(u)
  \/ SetupIntrospect
  \/ SetupPersist
  \/ TM_SetupIntrospect
  \/ TM_SetupPersist
  \/ SetupFail
  \/ \E u \in UserTokens : setupTokensFromShortLived(u)
  \/ OnboardInfo
  \/ OnboardApp
  \/ ExchangeAppInfo
  \/ ExchangeCall
  \/ ExchangeKeepShort
  \/ ExchangeCatch
  \/ OnboardPages
  \/ OnboardFail

Spec == Init /\ [][Next]_vars


\* Every step of a running entry point is eventually taken: each HTTP
\* request returns and the interpreter goes on.
FairSpec ==
  /\ Init /\ [][Next]_vars
  /\ WF_vars(UpstreamRespond) /\ WF_vars(AfterRefresh) /\ WF_vars(ManualReturn)
  /\ WF_vars(RefreshRead) /\ WF_vars(RefreshExchange) /\ WF_vars(RefreshPages)
  /\ WF_vars(RefreshIntrospect) /\ WF_vars(RefreshPersist) /\ WF_vars(RefreshSheet)
  /\ WF_vars(RefreshCatch)

\* ------------------------------------------- validity checks on their own
\* Credential chains a setup or a refresh at clock 1 leaves behind: expiry
\* signal 1 or 26 (/debug_token version), lifetime 0 or 25 (TokenManager.js);
\* and chains whose app id or app secret has not been saved.
CheckStores ==
  {EmptyStore} \cup
  {[userToken |-> "u1", pageToken |-> PageTok("u1", "p1"), pageId |-> "p1",
    pageName |-> PageName("p1"), expiresAt |-> e * MS, appId |-> "app",
    appSecret |-> "sec"] : e \in ExpirySignals \ {0}} \cup
  {[userToken |-> "u1", pageToken |-> PageTok("u1", "p1"), pageId |-> "p1",
    pageName |-> PageName("p1"), expiresAt |-> 26 * MS, appId |-> c[1],
    appSecret |-> c[2]] : c \in {<<"app", "">>, <<"", "sec">>}}

CheckInit ==
  /\ build \in Builds
  /\ now = 1
  /\ store \in CheckStores
  /\ pc = "idle"
  /\ fn = "" /\ args = "" /\ token = ""
  /\ depth = 0 /\ calls = 0 /\ refreshes = 0
  /\ lastReq = NoReq /\ lastResp = NoResp /\ outcome = NoOutcome
  /\ rpc = "off" /\ rloc = NoLocals /\ rResult = FALSE
  /\ rFail = {} /\ rHttp = 0 /\ rWrites = 0
  /\ store0 = EmptyStore
  /\ spc = "off" /\ sloc = NoSetupLocals /\ sres = NoSetup
  /\ check = NoCheck
  /\ listed = <<>>
  /\ sw = NoSweep /\ sheet = NoSheet
  /\ triggers = NoTriggers /\ targets = NoTargets

CheckNext ==
  \/ Tick
  \/ \E tok \in UserTokens \cup {""} : isTokenValid(tok)
  \/ \E tok \in UserTokens \cup {""} : getDetailedTokenInfo(tok)

\* the validity checks and the token inspection of an idle script
CheckSpec == CheckInit /\ [][CheckNext]_vars

\* ------------------------------------------------------------------ claims
\* --------------------------------------------------- the sweeps on their own
\* a configured chain with a valid stored expiry
SweepStore ==
  [userToken |-> "u1", pageToken |-> PageTok("u1", "p1"), pageId |-> "p1",
   pageName |-> PageName("p1"), expiresAt |-> 26 * MS, appId |-> "app",
   appSecret |-> "sec"]

\* (the sweeps are the same code under both copies of the token manager)
SweepInit ==
  /\ build = "debug_token"
  /\ now = 1
  /\ store \in {EmptyStore, SweepStore}
  /\ pc = "idle"
  /\ fn = "" /\ args = "" /\ token = ""
  /\ depth = 0 /\ calls = 0 /\ refreshes = 0
  /\ lastReq = NoReq /\ lastResp = NoResp /\ outcome = NoOutcome
  /\ rpc = "off" /\ rloc = NoLocals /\ rResult = FALSE
  /\ rFail = {} /\ rHttp = 0 /\ rWrites = 0
  /\ store0 = EmptyStore
  /\ spc = "off" /\ sloc = NoSetupLocals /\ sres = NoSetup
  /\ check = NoCheck
  /\ listed = <<>>
  /\ sw = NoSweep /\ sheet = NoSheet
  /\ triggers = NoTriggers /\ targets = NoTargets

SweepNext ==
  \/ \E op \in {"fetchAndRespond", "replyUnrepliedCommentsLast12h"},
        manual \in SeqsUpTo(Posts, MaxPosts) \cup {<<"">>}, auto \in BOOLEAN :
       StartCommentSweep(op, manual, auto)
  \/ FetchPostComments
  \/ processComment
  \/ replyUnreplied

\* comment sweeps, one after the other
SweepSpec == SweepInit /\ [][SweepNext]_vars

ScheduledInit ==
  /\ build \in Builds
  /\ now = 1
  /\ store \in {st \in CheckStores : st = EmptyStore \/ st.appId = "app"}
  /\ pc = "idle"
  /\ fn = "" /\ args = "" /\ token = ""
  /\ depth = 0 /\ calls = 0 /\ refreshes = 0
  /\ lastReq = NoReq /\ lastResp = NoResp /\ outcome = NoOutcome
  /\ rpc = "off" /\ rloc = NoLocals /\ rResult = FALSE
  /\ rFail = {} /\ rHttp = 0 /\ rWrites = 0
  /\ store0 = EmptyStore
  /\ spc = "off" /\ sloc = NoSetupLocals /\ sres = NoSetup
  /\ check = NoCheck
  /\ listed = <<>>
  /\ sw = NoSweep
  /\ triggers = NoTriggers /\ targets = NoTargets
  /\ \E rows \in {<<>>} \cup {r \in [1..MaxRows -> Statuses] : r[1] = "scheduled"} :
       sheet = [NoSheet EXCEPT !.rows = rows,
                               !.tried = [i \in 1..Len(rows) |-> 0],
                               !.posts = [i \in 1..Len(rows) |-> 0]]

ScheduledNext ==
  \/ processScheduledPosts
  \/ ScheduledAfterRefresh
  \/ processRow
  \/ RefreshRead
  \/ RefreshExchange
  \/ RefreshPages
  \/ RefreshIntrospect
  \/ RefreshPersist
  \/ RefreshSheet
  \/ RefreshCatch

\* scheduled-post sweeps, one after the other
ScheduledSpec == ScheduledInit /\ [][ScheduledNext]_vars

\* ------------------------------------------------ the periodic check alone
PeriodicInit ==
  /\ build \in Builds
  /\ now = 1
  /\ store \in CheckStores
  /\ pc = "idle"
  /\ fn = "" /\ args = "" /\ token = ""
  /\ depth = 0 /\ calls = 0 /\ refreshes = 0
  /\ lastReq = NoReq /\ lastResp = NoResp /\ outcome = NoOutcome
  /\ rpc = "off" /\ rloc = NoLocals /\ rResult = FALSE
  /\ rFail = {} /\ rHttp = 0 /\ rWrites = 0
  /\ store0 = EmptyStore
  /\ spc = "off" /\ sloc = NoSetupLocals /\ sres = NoSetup
  /\ check = NoCheck
  /\ listed = <<>>
  /\ sw = NoSweep /\ sheet = NoSheet
  /\ triggers = NoTriggers /\ targets = NoTargets

PeriodicNext ==
  \/ Tick
  \/ checkAndRefreshToken
  \/ PeriodicReturn
  \/ RefreshRead
  \/ RefreshExchange
  \/ RefreshPages
  \/ RefreshIntrospect
  \/ RefreshPersist
  \/ RefreshSheet
  \/ RefreshCatch

\* the time-driven trigger running checkAndRefreshToken again and again
PeriodicSpec == PeriodicInit /\ [][PeriodicNext]_vars

\* ------------------------------------------------ fetchRecentReels alone
ReelsNext ==
  \/ InvokeReels(store.pageToken)
  \/ ReelsPageInfo
  \/ UpstreamRespond
  \/ AfterRefresh
  \/ RefreshRead
  \/ RefreshExchange
  \/ RefreshPages
  \/ RefreshIntrospect
  \/ RefreshPersist
  \/ RefreshSheet
  \/ RefreshCatch

\* post discovery calling fetchRecentReels, over a stored chain
ReelsSpec == PeriodicInit /\ [][ReelsNext]_vars

\* ------------------------------------------------ getTargetPostIds alone
TargetInit ==
  /\ build \in Builds
  /\ now = 1
  /\ store = EmptyStore
  /\ pc = "idle"
  /\ fn = "" /\ args = "" /\ token = ""
  /\ depth = 0 /\ calls = 0 /\ refreshes = 0
  /\ lastReq = NoReq /\ lastResp = NoResp /\ outcome = NoOutcome
  /\ rpc = "off" /\ rloc = NoLocals /\ rResult = FALSE
  /\ rFail = {} /\ rHttp = 0 /\ rWrites = 0
  /\ store0 = EmptyStore
  /\ spc = "off" /\ sloc = NoSetupLocals /\ sres = NoSetup
  /\ check = NoCheck
  /\ listed = <<>>
  /\ sw = NoSweep /\ sheet = NoSheet
  /\ triggers = NoTriggers
  /\ \E postIds \in SeqsUpTo({"a", " a", "b ", " ", ""}, MaxPosts),
        setting \in {"", "true", "TRUE", "false"},
        posts \in SeqsUpTo(Posts, MaxPosts), reels \in SeqsUpTo(Posts, 1),
        ok \in BOOLEAN :
       targets = [NoTargets EXCEPT !.pc = "input", !.postIds = postIds,
                                   !.autoDiscovery = setting, !.posts = posts,
                                   !.reels = reels, !.pageInfoOk = ok]

TargetNext == CallGetTargetPostIds

\* getTargetPostIds called for every setting and listing
TargetSpec == TargetInit /\ [][TargetNext]_vars

\* --------------------------------------------------- the triggers alone
TriggerNext ==
  \/ ensureAutomationTriggers
  \/ resetAutomationTriggers
  \/ \E h \in OtherHandlers : InstallTrigger(h)

\* calls of ensureAutomationTriggers and resetAutomationTriggers in any order,
\* starting from no triggers
TriggerSpec == Init /\ [][TriggerNext]_vars

InRefresh == rpc # "off"
RefreshReturned == rpc = "ret"

\* C1: one invocation of a wrapped operation executes the upstream request at
\* most twice and calls refreshToken() at most once.
C1_AtMostOneRetry == calls <= 2 /\ refreshes <= 1

\* C2: every invocation of a wrapped operation eventually completes, whatever
\* the upstream answers, as long as every request returns.
C2_Completes == (pc = "request") ~> (pc = "done")

\* C3: after a session-expiry response and a successful refresh the operation
\* is re-executed with the stored page token and the same arguments, and what
\* the re-execution returns or throws is what the call returns or throws.
C3_RetryOutcome ==
  (pc = "done" /\ depth >= 1) =>
    /\ lastReq = [fn |-> fn, args |-> args, token |-> store.pageToken]
    /\ outcome = IF lastResp.code = 400 /\ lastResp.expired
                 THEN RefreshFailedError
                 ELSE Direct(fn, lastResp)

\* C4: when refreshToken() returns false to a wrapped operation, the request
\* is not executed again and the call fails with a refresh-failed error; if
\* that was the first refresh, the request has been executed exactly once.
C4_RefreshFalseNoRetry ==
  [][(pc = "refreshing" /\ rpc = "ret" /\ ~rResult /\ rpc' # rpc) =>
       /\ pc' = "done"
       /\ calls' = calls
       /\ lastReq' = lastReq
       /\ outcome'.kind = "error"
       /\ outcome'.label = "refresh"
       /\ outcome'.cause = "refreshFalse"
       /\ (refreshes = 1 => calls' = 1)]_vars
C4_Witness ==
  pc = "done" /\ outcome.cause = "refreshFalse" /\ calls = 1 /\ refreshes = 1

\* C5: a response that is 2xx, or whose status is not 400, or whose body lacks
\* "Session has expired" ends the call at once: no refresh, no store write,
\* no retry, and a non-2xx one fails with an error carrying status and body.
C5_NoRefreshOtherwise ==
  [][(pc = "request" /\ pc' # "request"
        /\ (Is2xx(lastResp'.code) \/ lastResp'.code # 400 \/ ~lastResp'.expired)) =>
       /\ pc' = "done"
       /\ rpc' = "off"
       /\ refreshes' = refreshes
       /\ store' = store
       /\ (Is2xx(lastResp'.code) => outcome'.cause # "upstream")
       /\ (~Is2xx(lastResp'.code) =>
             /\ outcome'.kind = "error"
             /\ outcome'.cause = "upstream"
             /\ outcome'.code = lastResp'.code
             /\ outcome'.expired = lastResp'.expired)]_vars
C5_Witness ==
  /\ pc = "done" /\ lastResp.code = 401 /\ lastResp.expired
  /\ outcome.kind = "error" /\ outcome.code = 401 /\ refreshes = 0

\* C6: the stored page token, page id and page name are those of one page
\* candidate, resolved with the stored user token; no page token without
\* its page id.
C6_ChainConsistent ==
  /\ (store.pageToken # "" => store.pageId # "")
  /\ (store.pageToken # "" \/ store.pageId # "" \/ store.pageName # "") =>
       /\ store.userToken \in UserTokens
       /\ store.pageId \in PageIds
       /\ store.pageToken = PageTok(store.userToken, store.pageId)
       /\ store.pageName = PageName(store.pageId)
C6_Witness ==
  /\ RefreshReturned /\ rResult
  /\ store0.pageToken # "" /\ store.userToken # store0.userToken
  /\ store.pageId # store0.pageId

\* the store holds every field of the chain this refresh derived
FullChainWritten ==
  /\ store.pageToken = rloc.page.access_token
  /\ store.pageId = rloc.page.id
  /\ store.pageName = rloc.page.name
  /\ store.appId = store0.appId
  /\ store.appSecret = store0.appSecret
  /\ store.userToken = IF build = "debug_token" /\ (store0.appId = "" \/ store0.appSecret = "")
                       THEN store0.userToken ELSE rloc.accessToken
  /\ IF build = "TokenManager"
     THEN \E t \in 1..now : store.expiresAt = t * MS + rloc.expiresIn * MS
     ELSE store.expiresAt =
            IF rloc.expiresAtMs # 0 THEN rloc.expiresAtMs
            ELSE IF store0.appId = "" \/ store0.appSecret = "" THEN store0.expiresAt
            ELSE EmptyExpiry

\* C7: during a refresh the store is either as it was before the refresh or
\* holds the whole refreshed chain, written by one write; a refresh that
\* returns false has written nothing.
C7_AtomicRefresh ==
  InRefresh =>
    /\ \/ (store = store0 /\ rWrites = 0)
       \/ (rWrites = 1 /\ rpc \in {"sheet", "ret"} /\ FullChainWritten)
    /\ (RefreshReturned /\ ~rResult => store = store0 /\ rWrites = 0)
C7_Witness ==
  /\ RefreshReturned /\ rResult /\ rWrites = 1 /\ store # store0
  /\ store0.userToken # "" /\ "introspect" \in rFail

\* C8: an empty page list makes the refresh return false without a write.
C8_EmptyPagesNoWrite ==
  (InRefresh /\ "empty" \in rFail) =>
    /\ rpc \in {"catch", "ret"}
    /\ rWrites = 0
    /\ store = store0
    /\ (RefreshReturned => ~rResult)
C8_Witness ==
  /\ RefreshReturned /\ "empty" \in rFail /\ ~rResult
  /\ build = "debug_token" /\ rloc.appSecret # "" /\ rloc.appId # ""

\* C9: without a stored user token the refresh returns false, calls nothing
\* upstream and writes nothing.
C9_NoUserTokenNoCalls ==
  (rpc \notin {"off", "start"} /\ store0.userToken = "") =>
    /\ rpc \in {"catch", "ret"}
    /\ rHttp = 0
    /\ rWrites = 0
    /\ store = store0
    /\ (RefreshReturned => ~rResult)
C9_Witness ==
  RefreshReturned /\ store0.userToken = "" /\ store0.appSecret # "" /\ ~rResult

\* C10: the refresh hands its caller a boolean: false exactly when the
\* configuration, the exchange or the page lookup failed; a failed
\* introspection or settings-sheet update alone leaves it true.
C10_BooleanResult ==
  RefreshReturned =>
    /\ rResult \in BOOLEAN
    /\ rpc \notin {"raised"}
    /\ (rResult <=> rFail \cap {"config", "exchange", "pages", "empty"} = {})
C10_Witness ==
  RefreshReturned /\ rResult /\ rFail = {"introspect", "sheet"}

\* C11: when the app id or the app secret is missing from the store, a
\* refresh calls no token exchange, looks the pages up with the stored user
\* token, and leaves user token, app id and app secret as they were; only
\* page token, page id, page name and expiry may differ afterwards.
C11_DegradedFrame ==
  (rpc \notin {"off", "start"} /\ (store0.appId = "" \/ store0.appSecret = "")) =>
    /\ rpc # "exchange"
    /\ rloc.expiresIn = 0
    /\ store.userToken = store0.userToken
    /\ store.appId = store0.appId
    /\ store.appSecret = store0.appSecret
    /\ (rpc = "pages" => rloc.accessToken = store0.userToken)
    /\ (rloc.page # Candidate("", "") =>
          rloc.page = Candidate(store0.userToken, rloc.page.id))
    /\ (build = "debug_token" /\ store0.userToken # "" /\ rFail = {} =>
          rpc \in {"pages", "introspect", "persist", "sheet", "ret"})
C11_Witness ==
  /\ RefreshReturned /\ rResult /\ build = "debug_token"
  /\ store0.appId # "" /\ store0.appSecret = ""
  /\ store.pageToken # store0.pageToken /\ store.expiresAt # store0.expiresAt
  /\ store.userToken = store0.userToken

\* C12: a refresh requested while the stored chain is Valid (stored expiry
\* more than 24 hours ahead) calls nothing upstream, leaves the store as it
\* is and returns true.
C12_ValidNoOp ==
  (rpc \notin {"off", "start"} /\ isValidByStorage(store0.expiresAt, now)) =>
    /\ rHttp = 0
    /\ rWrites = 0
    /\ store = store0
    /\ (RefreshReturned => rResult)

\* the introspection of this refresh gave a positive expiry signal
HasSignal ==
  /\ rloc.info.called /\ rloc.info.ok
  /\ (rloc.info.dataAccessExpiresAt > 0 \/ rloc.info.expiresAt > 0)
\* this refresh has written the store
RefreshWrote == InRefresh /\ rWrites = 1

\* C13: when the introspection of a refresh reports dataAccessExpiresAt > 0,
\* the expiry persisted is dataAccessExpiresAt in milliseconds, whatever
\* expiresAt and the exchange's expiresIn are; expiresAt is persisted only
\* when dataAccessExpiresAt is not > 0.
C13_DataAccessFirst ==
  (rloc.info.called /\ rloc.info.ok) =>
    /\ rloc.info.dataAccessExpiresAt > 0 =>
         /\ rloc.expiresAtMs = rloc.info.dataAccessExpiresAt * MS
         /\ (RefreshWrote => store.expiresAt = rloc.info.dataAccessExpiresAt * MS)
    /\ (rloc.info.dataAccessExpiresAt = 0 /\ rloc.info.expiresAt > 0) =>
         /\ rloc.expiresAtMs = rloc.info.expiresAt * MS
         /\ (RefreshWrote => store.expiresAt = rloc.info.expiresAt * MS)
C13_Witness ==
  /\ RefreshReturned /\ rResult
  /\ rloc.info.ok /\ rloc.info.dataAccessExpiresAt = 26 /\ rloc.info.expiresAt = 1
  /\ rloc.expiresIn = 25
  /\ store.expiresAt = 26 * MS /\ store0.expiresAt # 26 * MS

\* C14: a successful refresh whose introspection gave no positive signal (or
\* failed) and which has no positive expiresIn persists now + 60 days; the
\* persisted expiry is never empty.
C14_DefaultSixtyDays ==
  RefreshWrote =>
    /\ store.expiresAt # EmptyExpiry
    /\ (~HasSignal /\ rloc.expiresIn = 0) =>
         \E t \in 1..now : store.expiresAt = t * MS + SIXTY_DAYS * MS

\* C15: the exchange's expiresIn gives the persisted expiry (now + expiresIn)
\* exactly when it is > 0 and the introspection gave no positive signal; a
\* positive introspection signal is never overridden by it.
C15_FallbackExpiresIn ==
  RefreshWrote =>
    /\ (rloc.expiresIn > 0 /\ ~HasSignal) =>
         \E t \in 1..now : store.expiresAt = t * MS + rloc.expiresIn * MS
    /\ HasSignal =>
         store.expiresAt = IF rloc.info.dataAccessExpiresAt > 0
                           THEN rloc.info.dataAccessExpiresAt * MS
                           ELSE rloc.info.expiresAt * MS
    /\ (build = "debug_token" /\ rloc.expiresIn = 0 /\ ~HasSignal) =>
         store.expiresAt = IF store0.appId = "" \/ store0.appSecret = ""
                           THEN store0.expiresAt ELSE EmptyExpiry
C15_Witness ==
  /\ RefreshReturned /\ rResult /\ build = "debug_token"
  /\ rloc.expiresIn = 25 /\ rloc.info.called /\ ~HasSignal
  /\ store.expiresAt = now * MS + 25 * MS /\ store0.expiresAt = EmptyExpiry

\* C16: isTokenValid() without a token calls nothing upstream and answers true
\* exactly when an expiry is stored and stored expiry - now is strictly more
\* than 24 hours; exactly 24 hours left, or no stored expiry, is not Valid.
C16_StoredValidity ==
  (check.op = "isTokenValid" /\ check.token = "") =>
    /\ check.http = 0
    /\ check.result <=>
         (store.expiresAt # EmptyExpiry /\ store.expiresAt - check.at * MS > DAY * MS)
C16_Witness ==
  /\ check.op = "isTokenValid" /\ check.token = "" /\ ~check.result
  /\ store.expiresAt # EmptyExpiry
  /\ store.expiresAt - check.at * MS = DAY * MS

\* C17: isTokenValid(token) answers true only if the introspection does not
\* say isValid = false and, when it reports expiresAt > 0, expiresAt - now is
\* more than 24 hours.
C17_SuppliedValidity ==
  (check.op = "isTokenValid" /\ check.token # "" /\ build = "debug_token"
     /\ check.result) =>
    /\ check.info.ok
    /\ check.info.isValid # "false"
    /\ (check.info.expiresAt > 0 => check.info.expiresAt - check.at > DAY)

\* the /debug_token call of the latest check returned a result
Introspected ==
  /\ check.op \in {"isTokenValid", "getDetailedTokenInfo"}
  /\ check.http > 0 /\ check.primary.ok

\* C19: an introspection result has expiresIn = max(0, expiresAt - now) when
\* expiresAt > 0 and 0 otherwise, never negative, and isLongLived exactly when
\* expiresAt = 0 or expiresAt - now is more than one day.
C19_DerivedFields ==
  Introspected =>
    LET ea == check.primary.expiresAt
        left == ea - check.at
    IN /\ check.info = check.primary
       /\ check.primary.expiresIn >= 0
       /\ check.primary.expiresIn =
            IF ea > 0 THEN (IF left > 0 THEN left ELSE 0) ELSE 0
       /\ check.primary.isLongLived <=> (ea = 0 \/ left > DAY)
       /\ (ea = 0 => check.primary.isLongLived /\ check.primary.expiresIn = 0)
       /\ (left = DAY => ~check.primary.isLongLived)
C19_Witness ==
  /\ Introspected /\ check.primary.expiresAt - check.at = DAY
  /\ ~check.primary.isLongLived /\ check.primary.expiresIn = DAY

\* C20: the /debug_token call gives no result for any status outside
\* 200..299, with reason invalid_token for 400, unauthorized for 401 and
\* upstream_error for any other status; a 2xx answer without data fails too.
C20_FailureReasons ==
  (check.op \in {"isTokenValid", "getDetailedTokenInfo"} /\ check.http > 0) =>
    /\ (check.code < 200 \/ check.code > 299) =>
         /\ ~check.primary.ok
         /\ check.primary.reason = IF check.code = 400 THEN "invalid_token"
                                   ELSE IF check.code = 401 THEN "unauthorized"
                                   ELSE "upstream_error"
    /\ (check.code >= 200 /\ check.code <= 299 /\ ~check.hasData) =>
         /\ ~check.primary.ok
         /\ check.primary.reason \notin {"invalid_token", "unauthorized", "upstream_error"}
    /\ (check.primary.ok <=> (check.code >= 200 /\ check.code <= 299 /\ check.hasData))
C20_Witness ==
  /\ check.op = "getDetailedTokenInfo" /\ check.code = 401
  /\ ~check.primary.ok /\ check.primary.reason = "unauthorized"

\* C18: the token exchange does not raise when the exchange call fails (a
\* status outside 200..299): the short token is handed back as accessToken,
\* with the lifetime introspection reports, also when introspection fails.
C18_ExchangeNeverRaises ==
  /\ sloc.exchangeFailed =>
       /\ spc # "fail"
       /\ (spc = "pages" => sloc.accessToken = sloc.token)
  /\ "exchange_status" \notin rFail


\* getTokenInfoFromToken has run for a check or an inspection
IntrospectionRan ==
  check.op \in {"isTokenValid", "getDetailedTokenInfo"} /\ check.http > 0

\* C21: when the primary introspection fails the legacy endpoint is called
\* exactly once (two requests in all); a 2xx legacy answer gives a degraded
\* result with isValid true, no scopes, no dataAccessExpiresAt and expiresAt 0;
\* a failing legacy call raises the error of the primary introspection.  A
\* successful primary introspection makes no legacy call.
C21_LegacyFallback ==
  IntrospectionRan =>
    IF check.primary.ok
    THEN check.http = 1 /\ check.legacyCode = 0 /\ check.info = check.primary
    ELSE /\ check.http = 2 /\ check.legacyCode # 0
         /\ IF Is2xx(check.legacyCode)
            THEN /\ check.info.ok /\ check.info.legacy
                 /\ check.info.isValid = "true" /\ check.info.scopes = {}
                 /\ ~check.info.hasDataAccess /\ check.info.dataAccessExpiresAt = 0
                 /\ check.info.expiresAt = 0
            ELSE ~check.info.ok /\ check.info.reason = check.primary.reason

\* the primary introspection failed with status 500 and the legacy endpoint
\* with 401
C21_Witness ==
  /\ IntrospectionRan /\ check.code = 500 /\ check.legacyCode = 401
  /\ ~check.info.ok

\* C22: the /debug_token request is authorised with the app token
\* 'appId|appSecret' when both are available, otherwise with the target token
\* (getDetailedTokenInfo passes the stored app id and secret, isTokenValid none)
C22_AuthorizingToken ==
  /\ (check.op = "getDetailedTokenInfo" /\ check.token # "") =>
       check.authorizing =
         IF store.appId # "" /\ store.appSecret # ""
         THEN <<store.appId, "|", store.appSecret>>
         ELSE <<check.token>>
  /\ (check.op = "isTokenValid" /\ check.http > 0) =>
       check.authorizing = <<check.token>>

\* the token was inspected with an app id but no app secret stored
C22_Witness ==
  /\ check.op = "getDetailedTokenInfo" /\ check.token # ""
  /\ store.appId # "" /\ store.appSecret = ""
  /\ check.authorizing = <<check.token>>

\* C23: whatever the number of candidates /me/accounts lists, the page
\* selected by a refresh is the first one, the page a refresh persists is the
\* page it selected, and the page a manual setup or an onboarding persists is
\* the first one listed
C23_FirstCandidate ==
  /\ (listed # <<>> /\ InRefresh) =>
       rloc.page = Candidate(rloc.accessToken, listed[1])
  /\ (InRefresh /\ rWrites = 1) =>
       /\ store.pageId = rloc.page.id
       /\ store.pageToken = rloc.page.access_token
       /\ store.pageName = rloc.page.name
  /\ (listed # <<>> /\ ~InRefresh) =>
       /\ sres.success
       /\ store.pageId = listed[1]
       /\ store.pageToken = PageTok(store.userToken, listed[1])
       /\ store.pageName = PageName(listed[1])

\* a setup has persisted the first of two different candidates
C23_Witness ==
  /\ ~InRefresh /\ Len(listed) = 2 /\ listed[1] # listed[2]
  /\ sres.success /\ store.pageId = listed[1]

\* a manual setup is running
InManualSetup == spc \in {"l_info", "l_pages", "l_fail"}

\* C29: a manual setup writes nothing before it succeeds, and one that fails
\* (empty input, introspection failure, page-lookup failure, empty page list)
\* returns success = false, without raising, with every key of the store as
\* it was when the setup began
C29_FailedSetupNoWrite ==
  /\ [](InManualSetup => store = store0)
  /\ [][(spc = "l_fail" /\ spc' = "off") =>
         (store' = store0 /\ sres' = [op |-> "long", success |-> FALSE])]_vars

\* a manual setup over an existing chain is failing on an empty page list
C29_Witness ==
  /\ spc = "l_fail" /\ sloc.cause = "empty"
  /\ store0.userToken # "" /\ store0.userToken # sloc.token

\* C30: an onboarding that is about to return success = false has modified
\* no key of the store, app id and app secret included
C30_FailedOnboardingNoWrite ==
  spc = "fail" => store = store0

\* C24: a comment sweep never passes to postReply an id that was in the set
\* loaded when it began (the processed list for fetchAndRespond), so that
\* over any sequence of sweeps no comment gets more than one successful reply
C24_SweepIdempotent ==
  /\ \A c \in Comments : sw.attempts[c] > 0 => c \notin sw.seen
  /\ \A c \in Comments : sheet.replies[c] <= 1

\* C26: within one comment sweep postReply is executed at most once for a
\* comment id
C26_OneReplyPerSweep ==
  \A c \in Comments : sw.attempts[c] <= 1

\* C27: a comment is in the processed list only if its reply was posted or no
\* rule matched it, and it is added by the pass that replied or found no
\* match; a pass whose postReply fails adds nothing to the processed list,
\* writes an 'error' log entry for the comment and goes on with the next
\* comment of the same sweep; nothing recorded is ever removed
C27_RecordAfterReply ==
  /\ [](\A c \in sheet.processed :
          sheet.replies[c] > 0 \/ <<c, "no_match">> \in sheet.logs)
  /\ [][/\ sheet.processed \subseteq sheet'.processed
        /\ sheet.logs \subseteq sheet'.logs
        /\ \A c \in sheet'.processed \ sheet.processed :
             c = Head(sw.comments) /\ sw'.last \in {"replied", "no_match"}
        /\ (sw.pc = "comment" /\ sw.comments # <<>> /\ sw'.last = "error") =>
             /\ sheet'.processed = sheet.processed
             /\ sheet'.replies = sheet.replies
             /\ <<Head(sw.comments), "error">> \in sheet'.logs
             /\ sw'.pc = "comment"
             /\ sw'.comments = Tail(sw.comments)
             /\ sw'.postIds = sw.postIds]_vars

\* in one sweep the reply to c1 was posted and recorded, then the reply to
\* c2 failed
C27_Witness ==
  /\ sw.pc = "comment" /\ sw.last = "error"
  /\ sw.attempts["c1"] = 1 /\ "c1" \in sheet.processed
  /\ sw.attempts["c2"] = 1 /\ "c2" \notin sheet.processed
  /\ <<"c2", "error">> \in sheet.logs

C28_RefreshBeforePosts ==
  /\ (sw.pc = "refresh" \/ (sw.pc = "failed" /\ sw.error = "refresh")) =>
       (sw.postTokens = {} /\ sheet.rows = sw.rows0)
  /\ sw.refreshed => (sw.token = sw.reread /\ sw.postTokens \subseteq {sw.reread})

\* a post was made after a refresh that stored another page token
C28_Witness ==
  /\ sw.refreshed /\ sw.postTokens = {sw.reread}
  /\ sw.reread # PageTok("u1", "p1")

\* C31: a successful manual setup (/debug_token version) stores an empty app
\* secret; a refresh that begins with no app secret stored makes no exchange
\* call and leaves the stored user token as it is
C31_DegradedAfterManualSetup ==
  /\ [][(build = "debug_token" /\ spc = "l_pages" /\ spc' = "off") =>
          (sres'.success /\ store'.appSecret = "")]_vars
  /\ []((build = "debug_token" /\ InRefresh /\ store0.appSecret = "") =>
          /\ rpc # "exchange" /\ "exchange" \notin rFail
          /\ "exchange_status" \notin rFail
          /\ store.userToken = store0.userToken
          /\ store.appSecret = "")

\* a refresh has written another page over the chain of a manual setup (app
\* id found, no app secret)
C31_Witness ==
  /\ build = "debug_token" /\ InRefresh /\ rWrites = 1
  /\ store0.userToken # "" /\ store0.appId # "" /\ store0.appSecret = ""
  /\ store.pageToken # store0.pageToken /\ store.userToken = store0.userToken

\* C32: the expiry a successful manual setup (/debug_token version) stores is
\* the one it computed from the introspection: the introspected expiresAt in
\* milliseconds when that is positive, else the clock plus expiresIn when that
\* is positive, else the clock plus 60 days, whatever dataAccessExpiresAt is;
\* it is never the empty value
C32_SetupExpiry ==
  /\ [][(build = "debug_token" /\ spc = "l_info" /\ spc' = "l_pages") =>
          sloc'.expiresIn =
            IF sloc'.tokenInfo.expiresAt > 0 THEN sloc'.tokenInfo.expiresAt * MS
            ELSE IF sloc'.tokenInfo.expiresIn > 0
            THEN now * MS + sloc'.tokenInfo.expiresIn * MS
            ELSE now * MS + SIXTY_DAYS * MS]_vars
  /\ [][(build = "debug_token" /\ spc = "l_pages" /\ spc' = "off") =>
          (store'.expiresAt = sloc.expiresIn /\ store'.expiresAt # EmptyExpiry)]_vars

\* a manual setup has stored the clock plus 60 days
C32_Witness ==
  /\ build = "debug_token" /\ sres = [op |-> "long", success |-> TRUE]
  /\ store.expiresAt = now * MS + SIXTY_DAYS * MS

\* C33: checkAndRefreshToken calls refreshToken() exactly when the
\* introspection-based validity of the stored user token is false or the
\* stored-expiry validity is false; when both are true the store stays as it
\* is; the function returns in every case
C33_PeriodicCheck ==
  /\ [](pc = "periodic" =>
          /\ (rpc # "off") <=> (~check.byApi \/ ~check.byStorage)
          /\ (check.byApi /\ check.byStorage) => store = store0)
  /\ [][(pc = "periodic" /\ rpc = "off") => store' = store]_vars

\* C34: a pass of the scheduled-post loop over a row that is not enabled,
\* whose status is not '予約中', whose body is empty, whose date, hour or
\* minute does not parse, or whose scheduled time is later than the clock,
\* changes nothing in the sheet and makes no createPagePost call; the counters
\* of the sweep, and those it returns, add up to the calls it made
C34_SkippedRowsUntouched ==
  /\ [][(sw.pc = "rows" /\ sw.todo # <<>> /\ sw'.todo # sw.todo) =>
          LET c == sw'.cell
              status == sw.rows[Head(sw.todo)]
          IN (\/ c.enabled # "on" \/ status # "scheduled" \/ c.body = ""
              \/ c.date \notin {"d0"} \/ c.hour \notin {"0", "1", "2"}
              \/ c.minute \notin {"0", "1", "2"}
              \/ DateTime(c.date) + parseInt(c.hour) > now) =>
               /\ sheet' = sheet
               /\ sw'.attempted = sw.attempted
               /\ sw'.posted = sw.posted /\ sw'.failed = sw.failed
               /\ sw'.postTokens = sw.postTokens]_vars
  /\ [](sw.op = "processScheduledPosts" =>
          sw.posted + sw.failed = sw.attempted)
  /\ [][(sw.pc = "rows" /\ sw'.pc = "done") =>
          (sw'.posted = sw.posted /\ sw'.failed = sw.failed)]_vars

\* a sweep has posted its first row and skipped the second, which is
\* scheduled for later
C34_Witness ==
  /\ sw.op = "processScheduledPosts" /\ sw.pc = "rows" /\ sw.todo = <<>>
  /\ sw.posted = 1 /\ sw.attempted = 1
  /\ sw.cell = [DueCell EXCEPT !.hour = "2"]
  /\ Len(sheet.rows) = 2 /\ sheet.rows[2] = "scheduled"

\* the installed triggers whose handler is in H
TriggersOf(H) == SelectSeq(triggers.list, LAMBDA h : h \in H)

\* C35: however ensureAutomationTriggers and resetAutomationTriggers are
\* called, starting from no triggers, at most one trigger exists for each of
\* processScheduledPosts and fetchAndRespond; when resetAutomationTriggers has
\* returned none exists for either; neither function adds or removes a
\* trigger of another handler
C35_AtMostOneTrigger ==
  /\ [](\A h \in AutomationHandlers : Len(TriggersOf({h})) <= 1)
  /\ []((triggers.op = "resetAutomationTriggers" /\ ~triggers.raised) =>
          TriggersOf(AutomationHandlers) = <<>>)
  /\ [][triggers'.op \in {"ensureAutomationTriggers", "resetAutomationTriggers"} =>
          SelectSeq(triggers'.list, LAMBDA h : h \in OtherHandlers) =
            TriggersOf(OtherHandlers)]_vars

\* ensureAutomationTriggers has found the trigger of processScheduledPosts
\* installed and has added that of fetchAndRespond after a trigger of another
\* handler
C35_Witness ==
  /\ triggers.op = "ensureAutomationTriggers"
  /\ triggers.list = <<"processScheduledPosts", "checkAndRefreshToken",
                       "fetchAndRespond">>

\* C36: in replyUnrepliedCommentsLast12h every comment fetched adds one to
\* exactly one of replied, failed and skipped, so the three add up to the
\* comments fetched, and replied + failed <= total; a comment whose id is in
\* the set of replied ids built from the log, or whose creation time is
\* missing or older than 12 hours, is not passed to postReply
C36_CountersAddUp ==
  /\ [](sw.op = "replyUnrepliedCommentsLast12h" =>
          /\ sw.replied + sw.failed + sw.skipped + Len(sw.comments) = sw.fetched
          /\ sw.replied + sw.failed <= sw.total)
  /\ [][(sw.pc = "comment" /\ sw.op = "replyUnrepliedCommentsLast12h"
           /\ sw.comments # <<>>) =>
          /\ (sw'.replied + sw'.failed + sw'.skipped) =
               (sw.replied + sw.failed + sw.skipped) + 1
          /\ sw'.replied >= sw.replied /\ sw'.failed >= sw.failed
          /\ sw'.skipped >= sw.skipped
          /\ (\/ sw'.item.id \in sw.seen
              \/ sw'.item.created = 0
              \/ sw'.item.created < now * MS - HALF_DAY * MS) =>
               /\ sw'.attempts = sw.attempts
               /\ sheet' = sheet
               /\ sw'.last = "skipped"]_vars

\* a sweep has replied to one comment, failed on another and skipped a third
\* that was created an hour before the 12 hours began
C36_Witness ==
  /\ sw.op = "replyUnrepliedCommentsLast12h" /\ sw.pc = "comment"
  /\ sw.replied = 1 /\ sw.failed = 1 /\ sw.skipped = 1 /\ sw.total = 2
  /\ sw.item.id # "" /\ sw.item.created = now * MS - HALF_DAY * MS - MS

\* the entries of the post-id setting that name a post, blanks dropped
ConfiguredIds ==
  SelectSeq([i \in 1..Len(targets.postIds) |-> trim(targets.postIds[i])],
            LAMBDA id : id \notin {"", " "})
\* the position of the first occurrence of id in the listing of the posts
\* followed by that of the reels
FirstListed(id) ==
  CHOOSE i \in 1..Len(targets.posts \o targets.reels) :
    /\ (targets.posts \o targets.reels)[i] = id
    /\ \A j \in 1..(i - 1) : (targets.posts \o targets.reels)[j] # id

\* C37: getTargetPostIds returns exactly the configured post ids whenever at
\* least one is configured, and then calls nothing upstream; otherwise, with
\* auto-discovery on, it returns the ids of the posts followed by those of the
\* reels, every id once, in the order of their first occurrence; with
\* auto-discovery off it returns the empty list
C37_TargetPostIds ==
  targets.pc = "returned" =>
    LET r == targets.result
        all == targets.posts \o targets.reels
        on == targets.autoDiscovery \in {"", "true", "TRUE"}
    IN /\ ConfiguredIds # <<>> =>
            (r = ConfiguredIds /\ targets.called = <<>>)
       /\ (ConfiguredIds = <<>> /\ on) =>
            /\ {r[i] : i \in 1..Len(r)} = {all[i] : i \in 1..Len(all)}
            /\ \A i, j \in 1..Len(r) : i < j => FirstListed(r[i]) < FirstListed(r[j])
       /\ (ConfiguredIds = <<>> /\ ~on) => (r = <<>> /\ targets.called = <<>>)

\* the ids of two posts and a reel that is one of them were merged
C37_Witness ==
  /\ targets.pc = "returned" /\ ConfiguredIds = <<>>
  /\ targets.posts = <<"b", "a">> /\ targets.reels = <<"b">>
  /\ targets.result = <<"b", "a">>

\* C38: fetchRecentReels never throws: a status outside 200..299, a failure
\* of getPageInfo and a refresh that returned false after a session-expiry
\* response each end it with the empty list, which leaves post discovery with
\* the ordinary posts
C38_ReelsNeverRaise ==
  /\ [](fn = "fetchRecentReels" => outcome.kind # "error")
  /\ []((fn = "fetchRecentReels" /\ pc = "done" /\ ~Is2xx(lastResp.code)) =>
          (outcome.kind = "result" /\ outcome.label = "empty"))
  /\ [][(fn = "fetchRecentReels" /\ pc = "pageinfo" /\ pc' = "done") =>
          (outcome'.kind = "result" /\ outcome'.label = "empty")]_vars
  /\ [][(fn = "fetchRecentReels" /\ pc = "refreshing" /\ rpc = "ret" /\ ~rResult) =>
          /\ pc' = "done"
          /\ outcome'.kind = "result" /\ outcome'.label = "empty"
          /\ \A posts \in SeqsUpTo(Posts, MaxPosts) :
               getTargetPostIds(<<>>, TRUE, posts, <<>>) = Dedup(posts)]_vars

\* a retry of fetchRecentReels has ended with the empty list because the
\* second refresh returned false
C38_Witness ==
  /\ fn = "fetchRecentReels" /\ pc = "done" /\ depth = 1
  /\ outcome.kind = "result" /\ outcome.label = "empty"
  /\ outcome.cause = "refreshFalse"


====
